---- MODULE Spec2Model ----
(***************************************************************************)
(* The command scheduler of frclib-commands (src/src/manager.rs) with the  *)
(* command contract of src/src/commands.rs and the conditional scheduler   *)
(* of src/src/conditions.rs.                                               *)
(*                                                                         *)
(* A command object is named by a string; an arena slot holds the name of  *)
(* the command it owns, or None.  A CommandIndex is a pair <<kind, i>>     *)
(* with kind "Command", "DefaultCommand" or "PreservedCommand"; slot i of  *)
(* the model is slot i-1 of the Rust vector.                               *)
(***************************************************************************)
EXTENDS Integers, Sequences, FiniteSets, TLC

VARIABLES
    cmd_queue,            \* MANAGER_QUEUE.cmd_queue
    cond_queue,           \* MANAGER_QUEUE.cond_queue
    periodic_callbacks,   \* SUIDs of the registered subsystems, registration order
    commands,             \* Vec<Option<Command>>
    default_commands,     \* Vec<Option<Command>>
    preserved_commands,   \* Vec<Option<Command>>
    interrupt_state,      \* FxHashMap<CommandIndex, bool>
    subsystem_to_default, \* FxHashMap<SubsystemSUID, CommandIndex>
    requirements,         \* FxHashMap<SubsystemSUID, CommandIndex>
    initialized_commands, \* FxHashSet<CommandIndex>
    orphaned_commands,    \* FxHashSet<CommandIndex>
    cond_schedulers,      \* Vec<ConditionalScheduler>
    pc,                   \* position inside CommandManager::run
    cmds,                 \* run_commands: visits of the for loop still to make
    to_remove,            \* run_commands: indices pushed for reaping
    given,                \* command objects already moved into the scheduler
    tick,                 \* number of run() calls started
    log,                  \* per command: hook calls the scheduler made this tick
    life,                 \* per command: Queued / Running / Terminated by hook calls
    viol,                 \* per command: lifecycle-order violations observed
    to_schedule,          \* run_cond_schedulers: indices yielded by the polls
    failure,              \* why the program stopped with a panic, "none" otherwise
    slot_of,              \* per command: the CommandIndex it was stored under
    marked,               \* commands an admission flagged, until they are ended
                          \* or an admission of their own clears the flag
    last_admit,           \* outcome of the latest inner_schedule call
    refused,              \* admissions of the tick that met an owner whose own
                          \* cancel_incoming returns true: <<incoming, owner>>
    edge_admitted,        \* commands run_cond_schedulers admitted in this tick
    plan,                 \* what the clients do in this exploration
    comp,                 \* a composite command driven on its own
    ctx,                  \* the execution context: its MANAGER_QUEUE cell and
                          \* the CommandManager values alive on it
    periodic_calls,       \* SUIDs whose periodic callback run_subsystems has
                          \* called in this tick, in call order
    evaluation,           \* a Condition built with and / or / negate, and what
                          \* its latest get_as_boolean did
    drained               \* commands update has taken from cmd_queue in this
                          \* tick, in the order of the drain

vars == <<cmd_queue, cond_queue, periodic_callbacks, commands, default_commands,
          preserved_commands, interrupt_state, subsystem_to_default, requirements,
          initialized_commands, orphaned_commands, cond_schedulers, pc, cmds,
          to_remove, to_schedule, given, tick, log, life, viol, failure, slot_of,
          marked, last_admit, refused, edge_admitted, plan, comp, ctx,
          periodic_calls, evaluation, drained>>

(***************************************************************************)
(* Bounds of the exploration.                                              *)
(***************************************************************************)
\* every kind of command and every client call, over a few ticks
MaxTicks == 2
MaxSubmit == 3
\* a few commands over more ticks
LongTicks == 4
LongSubmit == 2

None == "None"

(***************************************************************************)
(* Finite maps.                                                            *)
(***************************************************************************)
MapPut(m, k, v) == [x \in DOMAIN m \cup {k} |-> IF x = k THEN v ELSE m[x]]
MapDel(m, ks) == [x \in DOMAIN m \ ks |-> m[x]]
Range(f) == {f[x] : x \in DOMAIN f}
EmptyMap == [x \in {} |-> None]

(***************************************************************************)
(* The subsystems and the command objects the clients build.               *)
(***************************************************************************)
SUIDs == {1, 2, 3}

ScheduledCommands == {"X", "Y", "A", "O"}
DefaultCommands == {"D1"}
ConditionCommands == {"P", "Q"}
Objects == ScheduledCommands \cup DefaultCommands \cup ConditionCommands

\* what the clients do in an exploration: the run() calls, the commands they
\* hand over, and which commands those are
GeneralPlan == [ticks |-> MaxTicks, submits |-> MaxSubmit, objects |-> Objects]
LongPlan == [ticks |-> LongTicks, submits |-> LongSubmit, objects |-> {"Y", "P", "Q"}]

\* Subsystem::default_command of each subsystem type
default_command(suid) == IF suid = 1 THEN "D1" ELSE None

\* CommandBuilder::with_subsystems: the requirement vector given to a command
with_subsystems(c) ==
    CASE c = "X" -> <<1, 2>>
      [] c = "Y" -> <<1>>
      [] c = "A" -> <<1, 3>>
      [] c = "O" -> <<>>
      [] c = "D1" -> <<1>>
      [] c = "P" -> <<2>>
      [] c = "Q" -> <<>>

\* the values the client's is_finished closure of a command may return
is_finished_closure(c) ==
    CASE c = "A" -> {FALSE}
      [] c = "Y" -> {TRUE}
      [] OTHER -> BOOLEAN

\* the cancel_incoming a client's own CommandTrait implementation returns
\* (a Custom command overriding the trait default)
custom_cancel_incoming(c) == c = "A"

\* Condition::on_true / Condition::on_false chosen for a condition command
EdgeOf(c) == IF c = "P" THEN "on_true" ELSE "on_false"

(***************************************************************************)
(* impl CommandTrait for Command                                           *)
(***************************************************************************)
\* Command::get_requirements forwards to the variant
get_requirements(c) == with_subsystems(c)

\* Command::cancel_incoming is not forwarded to the variant: the trait
\* default answers for every Command
cancel_incoming(c) == FALSE

SeqToSet(q) == {q[i] : i \in DOMAIN q}

(***************************************************************************)
(* CommandManager: the mutable fields as one record, so that the private   *)
(* methods are operators from manager to manager.                          *)
(***************************************************************************)
Self ==
    [commands |-> commands,
     default_commands |-> default_commands,
     preserved_commands |-> preserved_commands,
     interrupt_state |-> interrupt_state,
     requirements |-> requirements,
     initialized_commands |-> initialized_commands,
     orphaned_commands |-> orphaned_commands]

Arena(self, kind) ==
    CASE kind = "Command" -> self.commands
      [] kind = "DefaultCommand" -> self.default_commands
      [] kind = "PreservedCommand" -> self.preserved_commands

\* CommandManager::get_command: None for an empty or missing slot
get_command(self, index) ==
    LET arena == Arena(self, index[1])
    IN  IF index[2] \in DOMAIN arena THEN arena[index[2]] ELSE None

\* mutant of FirstVacancy: the last vacant position instead of the first
FirstVacancy_Last(arena) ==
    IF \E i \in DOMAIN arena : arena[i] = None
    THEN CHOOSE i \in DOMAIN arena :
            arena[i] = None /\ \A j \in (i + 1)..Len(arena) : arena[j] # None
    ELSE 0

\* Option::is_none position in the command arena, 0 when there is none
FirstVacancy(arena) ==
    IF \E i \in DOMAIN arena : arena[i] = None
    THEN CHOOSE i \in DOMAIN arena :
            arena[i] = None /\ \A j \in 1..(i - 1) : arena[j] # None
    ELSE 0

\* CommandManager::add_command: the index the command gets
add_command_index(self) ==
    LET v == FirstVacancy(self.commands)
    IN  IF v # 0 THEN <<"Command", v>> ELSE <<"Command", Len(self.commands) + 1>>

\* CommandManager::add_command: the manager afterwards
add_command(self, command) ==
    LET v == FirstVacancy(self.commands)
        cmd_idx == add_command_index(self)
    IN  [self EXCEPT
            !.commands = IF v # 0 THEN [self.commands EXCEPT ![v] = command]
                         ELSE Append(self.commands, command),
            !.interrupt_state = MapPut(self.interrupt_state, cmd_idx, FALSE)]

\* inner_schedule, the loop over the requirements: the pair (can_cancel, to_cancel)
RECURSIVE ScanRequirements(_, _, _, _)
ScanRequirements(self, req, i, to_cancel) ==
    IF i > Len(req) THEN [can_cancel |-> TRUE, to_cancel |-> to_cancel]
    ELSE IF req[i] \in DOMAIN self.requirements
         THEN LET owner == self.requirements[req[i]]
                  cmd == get_command(self, owner)
              IN  IF cmd # None
                  THEN IF cancel_incoming(cmd)
                       THEN [can_cancel |-> FALSE, to_cancel |-> to_cancel]
                       ELSE ScanRequirements(self, req, i + 1, to_cancel \cup {owner})
                  ELSE ScanRequirements(self, req, i + 1, to_cancel)
         ELSE ScanRequirements(self, req, i + 1, to_cancel)

\* mutant of TakeOwnership: the flag of the admitted index is not cleared
TakeOwnership_KeepsOwnFlag(self, index, req, to_cancel) ==
    LET flagged == [x \in DOMAIN self.interrupt_state \cup to_cancel |->
                       IF x \in to_cancel THEN TRUE ELSE self.interrupt_state[x]]
        owned == [s \in DOMAIN self.requirements \cup SeqToSet(req) |->
                       IF s \in SeqToSet(req) THEN index ELSE self.requirements[s]]
    IN  [self EXCEPT !.interrupt_state = flagged, !.requirements = owned]

\* mutant of TakeOwnership: the loop over to_cancel is missing
TakeOwnership_NoFlag(self, index, req, to_cancel) ==
    LET owned == [s \in DOMAIN self.requirements \cup SeqToSet(req) |->
                       IF s \in SeqToSet(req) THEN index ELSE self.requirements[s]]
    IN  [self EXCEPT !.interrupt_state = MapPut(self.interrupt_state, index, FALSE),
                     !.requirements = owned]

\* inner_schedule, the three loops run when can_cancel holds
TakeOwnership(self, index, req, to_cancel) ==
    LET flagged == [x \in DOMAIN self.interrupt_state \cup to_cancel |->
                       IF x \in to_cancel THEN TRUE ELSE self.interrupt_state[x]]
        owned == [s \in DOMAIN self.requirements \cup SeqToSet(req) |->
                       IF s \in SeqToSet(req) THEN index ELSE self.requirements[s]]
    IN  [self EXCEPT !.interrupt_state = MapPut(flagged, index, FALSE),
                     !.requirements = owned]

\* CommandManager::inner_schedule (every caller passes the index of a present
\* command, so the expect does not fail)
inner_schedule(self, index) ==
    LET req == get_requirements(get_command(self, index))
        scan == ScanRequirements(self, req, 1, {})
    IN  IF req = <<>>
        THEN [self EXCEPT !.orphaned_commands = @ \cup {index}]
        ELSE IF scan.can_cancel
             THEN TakeOwnership(self, index, req, scan.to_cancel)
             ELSE self

\* CommandManager::remove_command
remove_command(self, command_idx) ==
    LET command == get_command(self, command_idx)
        cleared == [self EXCEPT
                       !.initialized_commands = @ \ {command_idx},
                       !.interrupt_state = MapDel(@, {command_idx})]
    IN  IF command = None THEN cleared
        ELSE [cleared EXCEPT
                 !.commands = IF command_idx[1] = "Command"
                              THEN [@ EXCEPT ![command_idx[2]] = None] ELSE @,
                 !.orphaned_commands = @ \ {command_idx},
                 !.requirements = MapDel(@, SeqToSet(get_requirements(command)))]

\* run_commands, the closing loop: remove_command for every index of to_remove
RECURSIVE RemoveAll(_, _, _)
RemoveAll(self, indices, i) ==
    IF i > Len(indices) THEN self
    ELSE RemoveAll(remove_command(self, indices[i]), indices, i + 1)


(***************************************************************************)
(* The hook calls the scheduler makes on a command, as the command sees    *)
(* them: Queued until init, Running until end, then Terminated.            *)
(***************************************************************************)
LifeAfter(l, call) ==
    CASE call = "init" -> "Running"
      [] call \in {"end_true", "end_false"} -> "Terminated"
      [] OTHER -> l

ViolationOf(l, call) ==
    CASE call = "init" /\ l = "Running" -> {"init_twice"}
      [] call = "init" /\ l = "Terminated" -> {"init_after_end"}
      [] call \in {"periodic", "is_finished_true", "is_finished_false"} /\ l = "Queued" ->
            {"run_before_init"}
      [] call \in {"periodic", "is_finished_true", "is_finished_false"} /\ l = "Terminated" ->
            {"run_after_end"}
      [] call \in {"end_true", "end_false"} /\ l = "Queued" -> {"end_before_init"}
      [] call \in {"end_true", "end_false"} /\ l = "Terminated" -> {"end_twice"}
      [] OTHER -> {}

RECURSIVE Replay(_, _, _)
Replay(st, calls, i) ==
    IF i > Len(calls) THEN st
    ELSE Replay([life |-> LifeAfter(st.life, calls[i]),
                 viol |-> st.viol \cup ViolationOf(st.life, calls[i])], calls, i + 1)

\* the scheduler makes `calls` on command c
Hooks(c, calls) ==
    LET st == Replay([life |-> life[c], viol |-> viol[c]], calls, 1)
    IN  /\ log' = [log EXCEPT ![c] = @ \o calls]
        /\ life' = [life EXCEPT ![c] = st.life]
        /\ viol' = [viol EXCEPT ![c] = st.viol]

NoHooks == UNCHANGED <<log, life, viol>>

Requires(c) == SeqToSet(with_subsystems(c))
Calls(c) == SeqToSet(log[c])
Count(c, call) == Cardinality({i \in DOMAIN log[c] : log[c][i] = call})
\* the scheduler invoked periodic on c in the current tick
Ran(c) == "periodic" \in Calls(c)
\* the command registered as the default of subsystem s, None without one
DefaultFor(s) == get_command(Self, subsystem_to_default[s])
\* init has been called on c (life alone does not tell after an end without init)
Inited(c) == life[c] = "Running" \/ (life[c] = "Terminated" /\ "end_before_init" \notin viol[c])
\* the for loop of run_commands has made every visit; the reaping is still to come
CommandPhaseDone == pc = "commands" /\ cmds = EmptyMap
\* the index is an element of the vector run_commands builds
Active(index) == index \in Range(requirements) \cup orphaned_commands
\* the index has been pushed to to_remove
Pushed(index) == index \in SeqToSet(to_remove)

\* no composite is driven on its own
NoComposite == [kind |-> "none"]

\* no inner_schedule call has been made since the caller went on
NoAdmission == [n |-> 0]

\* no Condition is under evaluation
NoCondition == [kind |-> "none"]

\* the context after one CommandManager::new: MANAGER_QUEUE is Some, one manager
\* is alive, no call of the free functions has returned yet
OneManager ==
    [queue |-> TRUE, managers |-> {1}, result |-> "none", calls |-> 0,
     drained |-> <<>>]

(***************************************************************************)
(* Init: CommandManager::new(), then SubsystemCell::generate for the       *)
(* subsystems 1 and 2 (as the set-up of test_manager does).                *)
(***************************************************************************)
InitManager ==
    /\ cmd_queue = <<>>
    /\ cond_queue = <<>>
    /\ periodic_callbacks = <<1, 2>>
    /\ commands = <<>>
    /\ default_commands = <<default_command(1), default_command(2)>>
    /\ preserved_commands = <<>>
    /\ interrupt_state = [x \in {<<"DefaultCommand", 1>>, <<"DefaultCommand", 2>>} |-> FALSE]
    /\ subsystem_to_default = [s \in {1, 2} |-> <<"DefaultCommand", s>>]
    /\ requirements = EmptyMap
    /\ initialized_commands = {}
    /\ orphaned_commands = {}
    /\ cond_schedulers = <<>>
    /\ pc = "idle"
    /\ cmds = EmptyMap
    /\ to_remove = <<>>
    /\ to_schedule = <<>>
    /\ given = {}
    /\ tick = 0
    /\ log = [c \in Objects |-> <<>>]
    /\ life = [c \in Objects |-> "Queued"]
    /\ viol = [c \in Objects |-> {}]
    /\ failure = "none"
    /\ slot_of = [c \in Objects |-> IF c = default_command(1)
                                     THEN <<"DefaultCommand", 1>> ELSE None]
    /\ marked = {}
    /\ last_admit = NoAdmission
    /\ refused = {}
    /\ edge_admitted = {}
    /\ periodic_calls = <<>>
    /\ drained = <<>>

Init ==
    /\ InitManager
    /\ plan = GeneralPlan /\ comp = NoComposite /\ ctx = OneManager
    /\ evaluation = NoCondition

InitLong ==
    /\ InitManager
    /\ plan = LongPlan /\ comp = NoComposite /\ ctx = OneManager
    /\ evaluation = NoCondition

Manager == <<commands, default_commands, preserved_commands, interrupt_state,
             requirements, initialized_commands, orphaned_commands>>

SetManager(self) ==
    /\ commands' = self.commands
    /\ default_commands' = self.default_commands
    /\ preserved_commands' = self.preserved_commands
    /\ interrupt_state' = self.interrupt_state
    /\ requirements' = self.requirements
    /\ initialized_commands' = self.initialized_commands
    /\ orphaned_commands' = self.orphaned_commands

\* the panic of an expect, an index out of range or a missing map key
Panic(why) ==
    /\ pc' = "panicked"
    /\ failure' = why
    /\ UNCHANGED <<cmd_queue, cond_queue, periodic_callbacks, Manager,
                   subsystem_to_default, cond_schedulers, cmds, to_remove,
                   to_schedule, given, tick, log, life, viol, slot_of, marked,
                   last_admit, refused, edge_admitted, plan, comp, ctx,
                   periodic_calls, evaluation, drained>>

\* what one inner_schedule call did, for the properties of admission; n tells
\* two calls in a row apart
Admission(self, index) ==
    LET cmd == get_command(self, index)
        req == get_requirements(cmd)
        scan == ScanRequirements(self, req, 1, {})
        owners == {self.requirements[s] : s \in SeqToSet(req) \cap DOMAIN self.requirements}
    IN  [n |-> IF last_admit.n = 1 THEN 2 ELSE 1, index |-> index, command |-> cmd,
         accepted |-> req = <<>> \/ scan.can_cancel,
         owners |-> {o \in owners : get_command(self, o) # None},
         refusers |-> {o \in owners : get_command(self, o) # None
                                      /\ custom_cancel_incoming(get_command(self, o))},
         flagged |-> IF req # <<>> /\ scan.can_cancel
                     THEN {get_command(self, o) : o \in scan.to_cancel \ {index}}
                     ELSE {}]

\* inner_schedule(index) on the manager `self`
Admit(self, index) ==
    /\ SetManager(inner_schedule(self, index))
    /\ last_admit' = Admission(self, index)
    /\ marked' = (marked \cup Admission(self, index).flagged)
                    \ (IF Admission(self, index).accepted
                          /\ get_requirements(get_command(self, index)) # <<>>
                       THEN {get_command(self, index)} ELSE {})
    /\ refused' = refused \cup
                    {<<get_command(self, index), get_command(self, o)>> :
                        o \in Admission(self, index).refusers}

Registered(c) == SeqToSet(with_subsystems(c)) \subseteq DOMAIN subsystem_to_default

(***************************************************************************)
(* The client's calls between two ticks.  A call that only takes effect in  *)
(* the next run is not made after the last run of the exploration.          *)
(***************************************************************************)
\* mutant of Enqueue: the command is stored and admitted at once
Enqueue_Immediate(c) ==
    /\ c \in plan.objects \ given /\ Cardinality(given) < plan.submits /\ Registered(c)
    /\ Admit(add_command(Self, c), add_command_index(Self))
    /\ slot_of' = [slot_of EXCEPT ![c] = add_command_index(Self)]
    /\ given' = given \cup {c}
    /\ UNCHANGED <<cmd_queue, cond_queue, periodic_callbacks, subsystem_to_default,
                   cond_schedulers, pc, cmds, to_remove, to_schedule, tick, log,
                   life, viol, failure, edge_admitted, plan, comp, ctx,
                   periodic_calls, evaluation, drained>>

\* manager::schedule (Command::schedule, Command::try_schedule), the queue being
\* Some: the command is pushed to cmd_queue
Enqueue(c) ==
    /\ c \in plan.objects \ given /\ Cardinality(given) < plan.submits /\ Registered(c)
    /\ cmd_queue' = Append(cmd_queue, c)
    /\ given' = given \cup {c}
    /\ UNCHANGED <<cond_queue, periodic_callbacks, Manager, subsystem_to_default,
                   cond_schedulers, pc, cmds, to_remove, to_schedule, tick, log,
                   life, viol, failure, slot_of, marked, last_admit, refused,
                   edge_admitted, plan, comp, ctx,
                   periodic_calls, evaluation, drained>>

\* the client calls manager::schedule between two ticks
Schedule(c) ==
    /\ pc = "idle" /\ tick < plan.ticks
    /\ Enqueue(c)

\* CommandManager::schedule
ScheduleDirect(c) ==
    /\ pc = "idle"
    /\ c \in plan.objects \ given /\ Cardinality(given) < plan.submits /\ Registered(c)
    /\ Admit(add_command(Self, c), add_command_index(Self))
    /\ slot_of' = [slot_of EXCEPT ![c] = add_command_index(Self)]
    /\ given' = given \cup {c}
    /\ UNCHANGED <<cmd_queue, cond_queue, periodic_callbacks, subsystem_to_default,
                   cond_schedulers, pc, cmds, to_remove, to_schedule, tick, log,
                   life, viol, failure, edge_admitted, plan, comp, ctx,
                   periodic_calls, evaluation, drained>>

\* Condition::on_true / Condition::on_false: ConditionalScheduler::new, queued;
\* made_with remembers the command the scheduler was made with
EnqueueCondition(c) ==
    /\ c \in plan.objects \ given /\ Cardinality(given) < plan.submits /\ Registered(c)
    /\ cond_queue' = Append(cond_queue,
                        [edge |-> EdgeOf(c), last_poll |-> FALSE,
                         command_slot |-> c, idx_slot |-> None, made_with |-> c])
    /\ given' = given \cup {c}
    /\ UNCHANGED <<cmd_queue, periodic_callbacks, Manager, subsystem_to_default,
                   cond_schedulers, pc, cmds, to_remove, to_schedule, tick, log,
                   life, viol, failure, slot_of, marked, last_admit, refused,
                   edge_admitted, plan, comp, ctx,
                   periodic_calls, evaluation, drained>>

\* the client calls Condition::on_true / on_false between two ticks
OnEdge(c) ==
    /\ pc = "idle" /\ tick < plan.ticks
    /\ EnqueueCondition(c)

\* mutant of Register: a registered SUID is registered again
Register_Again(suid) ==
    /\ pc = "idle" /\ tick < plan.ticks
    /\ LET idx == Len(default_commands) + 1
       IN  /\ periodic_callbacks' = Append(periodic_callbacks, suid)
           /\ default_commands' = Append(default_commands, default_command(suid))
           /\ subsystem_to_default' =
                  MapPut(subsystem_to_default, suid, <<"DefaultCommand", idx>>)
           /\ interrupt_state' =
                  MapPut(interrupt_state, <<"DefaultCommand", idx>>, FALSE)
           /\ slot_of' = [c \in Objects |->
                             IF c = default_command(suid)
                             THEN <<"DefaultCommand", idx>> ELSE slot_of[c]]
           /\ UNCHANGED <<cmd_queue, cond_queue, commands, preserved_commands,
                          requirements, initialized_commands,
                          orphaned_commands, cond_schedulers, pc, cmds,
                          to_remove, to_schedule, given, tick, log, life,
                          viol, failure, marked, last_admit, refused,
                          edge_admitted, plan, comp, ctx,
                   periodic_calls, evaluation, drained>>

\* SubsystemCell::generate: register_subsystem, whose error is expect-ed
Register(suid) ==
    /\ pc = "idle" /\ tick < plan.ticks
    /\ IF suid \in DOMAIN subsystem_to_default
       THEN Panic("SubsystemAlreadyRegistered")
       ELSE LET idx == Len(default_commands) + 1
            IN  /\ periodic_callbacks' = Append(periodic_callbacks, suid)
                /\ default_commands' = Append(default_commands, default_command(suid))
                /\ subsystem_to_default' =
                       MapPut(subsystem_to_default, suid, <<"DefaultCommand", idx>>)
                /\ interrupt_state' =
                       MapPut(interrupt_state, <<"DefaultCommand", idx>>, FALSE)
                /\ slot_of' = [c \in Objects |->
                                  IF c = default_command(suid)
                                  THEN <<"DefaultCommand", idx>> ELSE slot_of[c]]
                /\ UNCHANGED <<cmd_queue, cond_queue, commands, preserved_commands,
                               requirements, initialized_commands,
                               orphaned_commands, cond_schedulers, pc, cmds,
                               to_remove, to_schedule, given, tick, log, life,
                               viol, failure, marked, last_admit, refused,
                               edge_admitted, plan, comp, ctx,
                   periodic_calls, evaluation, drained>>


(***************************************************************************)
(* CommandManager::run, one step per loop iteration.                       *)
(***************************************************************************)
\* mutant of RunBegin: run goes straight to run_cond_schedulers
RunBegin_SkipsSubsystems ==
    /\ pc = "idle"
    /\ tick < plan.ticks
    /\ pc' = "conditions"
    /\ tick' = tick + 1
    /\ last_admit' = NoAdmission
    /\ UNCHANGED <<cmd_queue, cond_queue, periodic_callbacks, Manager,
                   subsystem_to_default, cond_schedulers, cmds, to_remove,
                   to_schedule, given, log, life, viol, failure, slot_of, marked,
                   refused, edge_admitted, plan, comp, ctx, periodic_calls, evaluation, drained>>

\* run is called: a new tick starts with update
RunBegin ==
    /\ pc = "idle"
    /\ tick < plan.ticks
    /\ pc' = "update"
    /\ tick' = tick + 1
    /\ last_admit' = NoAdmission
    /\ UNCHANGED <<cmd_queue, cond_queue, periodic_callbacks, Manager,
                   subsystem_to_default, cond_schedulers, cmds, to_remove,
                   to_schedule, given, log, life, viol, failure, slot_of, marked,
                   refused, edge_admitted, plan, comp, ctx,
                   periodic_calls, evaluation, drained>>

\* mutant of UpdateCommand: the queue is drained from its back
UpdateCommand_FromBack ==
    /\ pc = "update"
    /\ cmd_queue # <<>>
    /\ Admit(add_command(Self, cmd_queue[Len(cmd_queue)]), add_command_index(Self))
    /\ slot_of' = [slot_of EXCEPT ![cmd_queue[Len(cmd_queue)]] = add_command_index(Self)]
    /\ cmd_queue' = SubSeq(cmd_queue, 1, Len(cmd_queue) - 1)
    /\ drained' = Append(drained, cmd_queue[Len(cmd_queue)])
    /\ UNCHANGED <<cond_queue, periodic_callbacks, subsystem_to_default,
                   cond_schedulers, pc, cmds, to_remove, to_schedule, given, tick,
                   log, life, viol, failure, edge_admitted, plan, comp, ctx,
                   periodic_calls, evaluation>>

\* update, the drain of cmd_queue: add_command and inner_schedule of one command
UpdateCommand ==
    /\ pc = "update"
    /\ cmd_queue # <<>>
    /\ Admit(add_command(Self, Head(cmd_queue)), add_command_index(Self))
    /\ slot_of' = [slot_of EXCEPT ![Head(cmd_queue)] = add_command_index(Self)]
    /\ cmd_queue' = Tail(cmd_queue)
    /\ drained' = Append(drained, Head(cmd_queue))
    /\ UNCHANGED <<cond_queue, periodic_callbacks, subsystem_to_default,
                   cond_schedulers, pc, cmds, to_remove, to_schedule, given, tick,
                   log, life, viol, failure, edge_admitted, plan, comp, ctx,
                   periodic_calls, evaluation>>

\* CommandManager::add_cond_scheduler: the slot it picks (from the vacancies of
\* the command arena) and whether that slot exists in preserved_commands
CondSlot == IF FirstVacancy(commands) # 0 THEN FirstVacancy(commands)
            ELSE Len(preserved_commands) + 1

\* update, the drain of cond_queue: add_cond_scheduler of one scheduler
UpdateCondition ==
    /\ pc = "update"
    /\ cmd_queue = <<>>
    /\ cond_queue # <<>>
    /\ LET scheduler == Head(cond_queue)
           index == <<"PreservedCommand", CondSlot>>
       IN  IF FirstVacancy(commands) # 0 /\ CondSlot > Len(preserved_commands)
           THEN Panic("index_out_of_range")
           ELSE /\ interrupt_state' = MapPut(interrupt_state, index, FALSE)
                /\ preserved_commands' =
                       IF FirstVacancy(commands) # 0
                       THEN [preserved_commands EXCEPT ![CondSlot] = scheduler.command_slot]
                       ELSE Append(preserved_commands, scheduler.command_slot)
                /\ cond_schedulers' =
                       Append(cond_schedulers,
                              [scheduler EXCEPT !.command_slot = None, !.idx_slot = index])
                /\ cond_queue' = Tail(cond_queue)
                /\ slot_of' = [slot_of EXCEPT ![scheduler.command_slot] = index]
                /\ UNCHANGED <<cmd_queue, periodic_callbacks, commands,
                               default_commands, requirements,
                               initialized_commands, orphaned_commands,
                               subsystem_to_default, pc, cmds, to_remove,
                               to_schedule, given, tick, log, life, viol, failure,
                               marked, last_admit, refused, edge_admitted, plan,
                               comp, ctx,
                   periodic_calls, evaluation, drained>>

\* mutant of RunSubsystems: no default owner is inserted
RunSubsystems_NoDefaults ==
    /\ pc = "update"
    /\ cmd_queue = <<>>
    /\ cond_queue = <<>>
    /\ periodic_calls' = periodic_callbacks
    /\ pc' = "conditions"
    /\ last_admit' = NoAdmission
    /\ UNCHANGED <<cmd_queue, cond_queue, periodic_callbacks, Manager,
                   subsystem_to_default, cond_schedulers, cmds, to_remove,
                   to_schedule, given, tick, log, life, viol, failure, slot_of,
                   marked, refused, edge_admitted, plan, comp, ctx, evaluation, drained>>

\* run_subsystems: the periodic callbacks, then a default owner for every
\* subsystem without an entry in requirements
RunSubsystems ==
    /\ pc = "update"
    /\ cmd_queue = <<>>
    /\ cond_queue = <<>>
    /\ requirements' = [s \in DOMAIN requirements \cup DOMAIN subsystem_to_default |->
                           IF s \in DOMAIN requirements THEN requirements[s]
                           ELSE subsystem_to_default[s]]
    /\ periodic_calls' = periodic_callbacks
    /\ pc' = "conditions"
    /\ last_admit' = NoAdmission
    /\ UNCHANGED <<cmd_queue, cond_queue, periodic_callbacks, commands,
                   default_commands, preserved_commands, interrupt_state,
                   subsystem_to_default, initialized_commands, orphaned_commands,
                   cond_schedulers, cmds, to_remove, to_schedule, given, tick, log,
                   life, viol, failure, slot_of, marked, refused, edge_admitted,
                   plan, comp, ctx, evaluation, drained>>

\* the closure Condition::on_true / on_false builds: the edge of the samples
EdgeFires(edge, last_poll_val, poll) ==
    IF edge = "on_true" THEN ~last_poll_val /\ poll ELSE last_poll_val /\ ~poll

\* filter_map(ConditionalScheduler::poll): the indices of the schedulers i.. that fire
RECURSIVE Polled(_, _)
Polled(sample, i) ==
    IF i > Len(cond_schedulers) THEN <<>>
    ELSE IF EdgeFires(cond_schedulers[i].edge, cond_schedulers[i].last_poll, sample[i])
         THEN <<cond_schedulers[i].idx_slot>> \o Polled(sample, i + 1)
         ELSE Polled(sample, i + 1)

\* run_cond_schedulers, the polls: every condition is sampled once
RunCondSchedulers ==
    /\ pc = "conditions"
    /\ \E sample \in [DOMAIN cond_schedulers -> BOOLEAN] :
          /\ to_schedule' = Polled(sample, 1)
          /\ cond_schedulers' = [i \in DOMAIN cond_schedulers |->
                                    [cond_schedulers[i] EXCEPT !.last_poll = sample[i]]]
    /\ pc' = "admit"
    /\ UNCHANGED <<cmd_queue, cond_queue, periodic_callbacks, Manager,
                   subsystem_to_default, cmds, to_remove, given, tick, log, life,
                   viol, failure, slot_of, marked, last_admit, refused,
                   edge_admitted, plan, comp, ctx,
                   periodic_calls, evaluation, drained>>

\* run_cond_schedulers, the loop over to_schedule: inner_schedule of one index
CondSchedule ==
    /\ pc = "admit"
    /\ to_schedule # <<>>
    /\ Admit(Self, Head(to_schedule))
    /\ edge_admitted' = edge_admitted \cup {get_command(Self, Head(to_schedule))}
    /\ to_schedule' = Tail(to_schedule)
    /\ UNCHANGED <<cmd_queue, cond_queue, periodic_callbacks, subsystem_to_default,
                   cond_schedulers, pc, cmds, to_remove, given, tick, log, life,
                   viol, failure, slot_of, plan, comp, ctx,
                   periodic_calls, evaluation, drained>>

\* run_commands, cmds: requirements.values() extended by orphaned_commands, as
\* the number of times each index occurs in the vector
Visits ==
    [index \in Range(requirements) \cup orphaned_commands |->
        Cardinality({s \in DOMAIN requirements : requirements[s] = index})
        + (IF index \in orphaned_commands THEN 1 ELSE 0)]

\* run_commands starts: cmds and to_remove are built
RunCommands ==
    /\ pc = "admit"
    /\ to_schedule = <<>>
    /\ cmds' = Visits
    /\ to_remove' = <<>>
    /\ pc' = "commands"
    /\ last_admit' = NoAdmission
    /\ UNCHANGED <<cmd_queue, cond_queue, periodic_callbacks, Manager,
                   subsystem_to_default, cond_schedulers, to_schedule, given, tick,
                   log, life, viol, failure, slot_of, marked, refused,
                   edge_admitted, plan, comp, ctx,
                   periodic_calls, evaluation, drained>>

\* one visit less of index is left in cmds
Visited(index) ==
    IF cmds[index] = 1 THEN MapDel(cmds, {index}) ELSE [cmds EXCEPT ![index] = @ - 1]

\* mutant of VisitCalls: an interrupted command is ended as if it had finished
VisitCalls_EndFalse(interrupted, initialized, finished) ==
    IF interrupted THEN <<"end_false">>
    ELSE (IF initialized THEN <<>> ELSE <<"init">>)
         \o <<"periodic">>
         \o (IF finished THEN <<"is_finished_true", "end_false">>
             ELSE <<"is_finished_false">>)

\* mutant of VisitCalls: init is called on every visit
VisitCalls_AlwaysInit(interrupted, initialized, finished) ==
    IF interrupted THEN <<"end_true">>
    ELSE <<"init", "periodic">>
         \o (IF finished THEN <<"is_finished_true", "end_false">>
             ELSE <<"is_finished_false">>)

\* run_commands, the body of the for loop for a present command: the hook
\* calls it makes, given what is_finished returns when it is asked
VisitCalls(interrupted, initialized, finished) ==
    IF interrupted THEN <<"end_true">>
    ELSE (IF initialized THEN <<>> ELSE <<"init">>)
         \o <<"periodic">>
         \o (IF finished THEN <<"is_finished_true", "end_false">>
             ELSE <<"is_finished_false">>)

\* run_commands, the body of the for loop: whether the index is pushed to to_remove
VisitRemoves(interrupted, finished) == interrupted \/ finished

\* run_commands, the body of the for loop for one element of cmds; the vector
\* holds the owners in the order of the hash map, then the orphaned commands
Visit(index) ==
    /\ pc = "commands"
    /\ index \in DOMAIN cmds
    /\ index \in orphaned_commands => DOMAIN cmds \subseteq orphaned_commands
    /\ LET arena == Arena(Self, index[1])
       IN  IF index[2] \notin DOMAIN arena THEN Panic("index_out_of_range")
           ELSE IF arena[index[2]] = None
           THEN /\ cmds' = Visited(index)
                /\ NoHooks
                /\ UNCHANGED <<cmd_queue, cond_queue, periodic_callbacks, Manager,
                               subsystem_to_default, cond_schedulers, pc,
                               to_remove, to_schedule, given, tick, failure,
                               slot_of, marked, last_admit, refused, edge_admitted,
                               plan, comp, ctx,
                   periodic_calls, evaluation, drained>>
           ELSE IF index \notin DOMAIN interrupt_state THEN Panic("interrupt_state_key")
           ELSE \E finished \in IF interrupt_state[index] THEN {FALSE}
                                ELSE is_finished_closure(arena[index[2]]) :
                /\ Hooks(arena[index[2]],
                         VisitCalls(interrupt_state[index],
                                    index \in initialized_commands, finished))
                /\ initialized_commands' =
                       IF interrupt_state[index] THEN initialized_commands
                       ELSE initialized_commands \cup {index}
                /\ to_remove' =
                       IF VisitRemoves(interrupt_state[index], finished)
                       THEN Append(to_remove, index) ELSE to_remove
                /\ cmds' = Visited(index)
                /\ UNCHANGED <<cmd_queue, cond_queue, periodic_callbacks, commands,
                               default_commands, preserved_commands,
                               interrupt_state, requirements, orphaned_commands,
                               subsystem_to_default, cond_schedulers, pc,
                               to_schedule, given, tick, failure, slot_of, marked,
                               last_admit, refused, edge_admitted, plan, comp, ctx,
                   periodic_calls, evaluation, drained>>

\* run_commands, the closing loop over to_remove; run returns, and the record
\* of the hook calls of the tick is closed
Reap ==
    /\ pc = "commands"
    /\ cmds = EmptyMap
    /\ SetManager(RemoveAll(Self, to_remove, 1))
    /\ to_remove' = <<>>
    /\ pc' = "idle"
    /\ log' = [c \in Objects |-> <<>>]
    /\ marked' = {c \in marked : Calls(c) \cap {"end_true", "end_false"} = {}}
    /\ refused' = {}
    /\ edge_admitted' = {}
    /\ periodic_calls' = <<>>
    /\ drained' = <<>>
    /\ UNCHANGED <<cmd_queue, cond_queue, periodic_callbacks, subsystem_to_default,
                   cond_schedulers, cmds, to_schedule, given, tick, life, viol,
                   failure, slot_of, last_admit, plan, comp, ctx, evaluation>>

Next ==
    \/ \E c \in ScheduledCommands : Schedule(c)
    \/ \E c \in ScheduledCommands : ScheduleDirect(c)
    \/ \E c \in ConditionCommands : OnEdge(c)
    \/ \E suid \in SUIDs : Register(suid)
    \/ RunBegin
    \/ UpdateCommand
    \/ UpdateCondition
    \/ RunSubsystems
    \/ RunCondSchedulers
    \/ CondSchedule
    \/ RunCommands
    \/ \E index \in DOMAIN cmds : Visit(index)
    \/ Reap

Spec == Init /\ [][Next]_vars

SpecLong == InitLong /\ [][Next]_vars

(***************************************************************************)
(* Submissions made from inside the hooks the scheduler calls during a     *)
(* tick: a subsystem periodic, a condition predicate, a command hook.      *)
(***************************************************************************)
ReentrantTicks == 2
ReentrantSubmit == 3

ReentrantPlan ==
    [ticks |-> ReentrantTicks, submits |-> ReentrantSubmit, objects |-> {"X", "Y", "P"}]

InitReentrant ==
    /\ InitManager
    /\ plan = ReentrantPlan /\ comp = NoComposite /\ ctx = OneManager
    /\ evaluation = NoCondition

\* the phases of run in which user code is called: after run_subsystems has
\* called the subsystem periodics, after the polls, between two visits
InHook == pc \in {"conditions", "admit", "commands"}

\* a hook calls manager::schedule
ScheduleInHook(c) == InHook /\ Enqueue(c)

\* a hook calls Condition::on_true / on_false
OnEdgeInHook(c) == InHook /\ EnqueueCondition(c)

NextReentrant ==
    \/ Next
    \/ \E c \in ScheduledCommands : ScheduleInHook(c)
    \/ \E c \in ConditionCommands : OnEdgeInHook(c)

SpecReentrant == InitReentrant /\ [][NextReentrant]_vars

(***************************************************************************)
(* Composite commands (commands.rs): SequentialCommand and ParallelCommand *)
(* over leaves, driven by the visits run_commands makes on one index.      *)
(* A command is a record; current of a sequential command is the Rust      *)
(* cursor plus one.  A hook call on a leaf is the event <<leaf, call>>.    *)
(***************************************************************************)
CompositeTicks == 4
MaxDt == 2
MaxDuration == 2

Leaves == {"a", "b", "c", "s1", "s2", "long", "wait"}

\* the requirement vector each leaf was built with
LeafRequirements(name) ==
    CASE name = "s1" -> <<1>>
      [] name = "s2" -> <<2>>
      [] OTHER -> <<>>

\* the values the is_finished closure of a leaf may return: long never finishes
LeafFinished(name) == IF name = "long" THEN {FALSE} ELSE BOOLEAN

\* WaitCommand::is_finished: the time elapsed since init is at least the
\* duration; start_instant is <<>> for None and <<t>> for Some(t)
WaitFinished(now, start_instant, duration) ==
    start_instant # <<>> /\ now - start_instant[1] >= duration

\* what every leaf answers if its is_finished is asked in one visit
Oracles == {fin \in [Leaves -> BOOLEAN] : \A l \in Leaves : fin[l] \in LeafFinished(l)}

RECURSIVE SetToSeq(_)
\* HashSet into Vec: the elements once each; the order of a HashSet is not
\* specified and nothing here depends on it
SetToSeq(S) ==
    IF S = {} THEN <<>>
    ELSE LET x == CHOOSE y \in S : \A z \in S : y <= z
         IN  <<x>> \o SetToSeq(S \ {x})

RECURSIVE c_requirements(_)
\* get_requirements: the vector of a leaf, the stored set of a sequential or
\* parallel command, the child's vector for Named, the child's vector chained
\* with the extra vector for ExtraRequirements
c_requirements(cmd) ==
    CASE cmd.kind = "leaf" -> LeafRequirements(cmd.name)
      [] cmd.kind \in {"seq", "par"} -> SetToSeq(cmd.requirements)
      [] cmd.kind = "named" -> c_requirements(cmd.commands[1])
      [] cmd.kind = "extra" -> c_requirements(cmd.commands[1]) \o cmd.extra

\* the requirements a constructor collects from the commands it is given
Collect(cs) == UNION {SeqToSet(c_requirements(cs[i])) : i \in DOMAIN cs}

\* SimpleCommand / WaitCommand
Leaf(name) ==
    [kind |-> "leaf", name |-> name, commands |-> <<>>, current |-> 0,
     finished |-> <<>>, race |-> FALSE, requirements |-> {}, extra |-> <<>>]

\* mutant of Sequential: the requirements of the first command only
Sequential_FirstOnly(cs) ==
    [kind |-> "seq", name |-> "", commands |-> cs, current |-> 1,
     finished |-> <<>>, race |-> FALSE,
     requirements |-> SeqToSet(c_requirements(cs[1])), extra |-> <<>>]

\* Command::sequential, before, after, and_then_many
Sequential(cs) ==
    [kind |-> "seq", name |-> "", commands |-> cs, current |-> 1,
     finished |-> <<>>, race |-> FALSE, requirements |-> Collect(cs), extra |-> <<>>]

\* Command::parallel, race, along_with, race_with
Parallel(cs, race) ==
    [kind |-> "par", name |-> "", commands |-> cs, current |-> 0,
     finished |-> [i \in DOMAIN cs |-> FALSE], race |-> race,
     requirements |-> Collect(cs), extra |-> <<>>]

\* Command::with_name
Named(c, name) ==
    [kind |-> "named", name |-> name, commands |-> <<c>>, current |-> 0,
     finished |-> <<>>, race |-> FALSE, requirements |-> {}, extra |-> <<>>]

\* Command::with_extra_requirements
ExtraRequirements(c, subsystems) ==
    [kind |-> "extra", name |-> "", commands |-> <<c>>, current |-> 0,
     finished |-> <<>>, race |-> FALSE, requirements |-> {}, extra |-> subsystems]

Done(cmd, calls) == [cmd |-> cmd, calls |-> calls, panic |-> FALSE]

\* Named and ExtraRequirements hand every hook to their command
Forward(cmd, r) ==
    [cmd |-> [cmd EXCEPT !.commands[1] = r.cmd], calls |-> r.calls, panic |-> r.panic]

RECURSIVE c_is_finished(_, _)
RECURSIVE c_init(_)
RECURSIVE c_end(_, _)
RECURSIVE c_periodic(_, _)
RECURSIVE InitAll(_, _)
RECURSIVE EndAll(_, _)
RECURSIVE PeriodicAll(_, _, _)

\* mutant of c_is_finished: a race waits for all of its children
c_is_finished_RaceAll(cmd, fin) ==
    CASE cmd.kind = "leaf" ->
            [value |-> fin[cmd.name],
             calls |-> <<<<cmd.name, IF fin[cmd.name] THEN "is_finished_true"
                                     ELSE "is_finished_false">>>>]
      [] cmd.kind = "seq" ->
            [value |-> cmd.current > Len(cmd.commands), calls |-> <<>>]
      [] cmd.kind = "par" ->
            [value |-> \A i \in DOMAIN cmd.finished : cmd.finished[i], calls |-> <<>>]
      [] cmd.kind \in {"named", "extra"} -> c_is_finished(cmd.commands[1], fin)

\* is_finished: the answer and the calls made on leaves
c_is_finished(cmd, fin) ==
    CASE cmd.kind = "leaf" ->
            [value |-> fin[cmd.name],
             calls |-> <<<<cmd.name, IF fin[cmd.name] THEN "is_finished_true"
                                     ELSE "is_finished_false">>>>]
      [] cmd.kind = "seq" ->
            [value |-> cmd.current > Len(cmd.commands), calls |-> <<>>]
      [] cmd.kind = "par" ->
            [value |-> IF cmd.race
                       THEN \E i \in DOMAIN cmd.finished : cmd.finished[i]
                       ELSE \A i \in DOMAIN cmd.finished : cmd.finished[i],
             calls |-> <<>>]
      [] cmd.kind \in {"named", "extra"} -> c_is_finished(cmd.commands[1], fin)

\* ParallelCommand::init, the loop from child i on
InitAll(cmd, i) ==
    IF i > Len(cmd.commands) THEN Done(cmd, <<>>)
    ELSE LET r == c_init(cmd.commands[i])
             rest == InitAll([cmd EXCEPT !.commands[i] = r.cmd], i + 1)
         IN  [cmd |-> rest.cmd, calls |-> r.calls \o rest.calls, panic |-> FALSE]

\* init
c_init(cmd) ==
    CASE cmd.kind = "leaf" -> Done(cmd, <<<<cmd.name, "init">>>>)
      [] cmd.kind = "seq" ->
            IF cmd.commands = <<>> THEN Done(cmd, <<>>)
            ELSE LET r == c_init(cmd.commands[1])
                 IN  Done([cmd EXCEPT !.current = 1, !.commands[1] = r.cmd], r.calls)
      [] cmd.kind = "par" -> InitAll(cmd, 1)
      [] cmd.kind \in {"named", "extra"} -> Forward(cmd, c_init(cmd.commands[1]))

\* mutant of EndAll: the children marked finished are ended again
EndAll_EndsFinished(cmd, i) ==
    IF i > Len(cmd.commands) THEN Done(cmd, <<>>)
    ELSE LET r == c_end(cmd.commands[i], TRUE)
             rest == EndAll([cmd EXCEPT !.commands[i] = r.cmd,
                                        !.finished[i] = TRUE], i + 1)
         IN  [cmd |-> rest.cmd, calls |-> r.calls \o rest.calls, panic |-> FALSE]

\* ParallelCommand::end(true), the loop from child i on
EndAll(cmd, i) ==
    IF i > Len(cmd.commands) THEN Done(cmd, <<>>)
    ELSE IF cmd.finished[i] THEN EndAll(cmd, i + 1)
    ELSE LET r == c_end(cmd.commands[i], TRUE)
             rest == EndAll([cmd EXCEPT !.commands[i] = r.cmd,
                                        !.finished[i] = TRUE], i + 1)
         IN  [cmd |-> rest.cmd, calls |-> r.calls \o rest.calls, panic |-> FALSE]

\* mutant of c_end: a sequential command interrupts its first child
c_end_FirstChild(cmd, interrupted) ==
    CASE cmd.kind = "leaf" ->
            Done(cmd, <<<<cmd.name, IF interrupted THEN "end_true" ELSE "end_false">>>>)
      [] cmd.kind = "seq" ->
            IF interrupted /\ cmd.commands # <<>>
            THEN LET r == c_end(cmd.commands[1], TRUE)
                 IN  Done([cmd EXCEPT !.commands[1] = r.cmd], r.calls)
            ELSE Done(cmd, <<>>)
      [] cmd.kind = "par" -> IF interrupted THEN EndAll(cmd, 1) ELSE Done(cmd, <<>>)
      [] cmd.kind \in {"named", "extra"} ->
            Forward(cmd, c_end(cmd.commands[1], interrupted))

\* end
c_end(cmd, interrupted) ==
    CASE cmd.kind = "leaf" ->
            Done(cmd, <<<<cmd.name, IF interrupted THEN "end_true" ELSE "end_false">>>>)
      [] cmd.kind = "seq" ->
            IF interrupted /\ cmd.current \in DOMAIN cmd.commands
            THEN LET r == c_end(cmd.commands[cmd.current], TRUE)
                 IN  Done([cmd EXCEPT !.commands[cmd.current] = r.cmd], r.calls)
            ELSE Done(cmd, <<>>)
      [] cmd.kind = "par" -> IF interrupted THEN EndAll(cmd, 1) ELSE Done(cmd, <<>>)
      [] cmd.kind \in {"named", "extra"} ->
            Forward(cmd, c_end(cmd.commands[1], interrupted))

\* mutant of PeriodicAll: the children marked finished are run again
PeriodicAll_RunsFinished(cmd, fin, i) ==
    IF i > Len(cmd.commands) THEN Done(cmd, <<>>)
    ELSE LET p == c_periodic(cmd.commands[i], fin)
             f == c_is_finished(p.cmd, fin)
             e == IF f.value THEN c_end(p.cmd, FALSE) ELSE Done(p.cmd, <<>>)
             here == [cmd EXCEPT !.commands[i] = e.cmd, !.finished[i] = f.value]
             rest == PeriodicAll(here, fin, i + 1)
         IN  [cmd |-> rest.cmd,
              calls |-> p.calls \o f.calls \o e.calls \o rest.calls,
              panic |-> rest.panic]

\* ParallelCommand::periodic, the loop from child i on
PeriodicAll(cmd, fin, i) ==
    IF i > Len(cmd.commands) THEN Done(cmd, <<>>)
    ELSE IF cmd.finished[i] THEN PeriodicAll(cmd, fin, i + 1)
    ELSE LET p == c_periodic(cmd.commands[i], fin)
             f == c_is_finished(p.cmd, fin)
             e == IF f.value THEN c_end(p.cmd, FALSE) ELSE Done(p.cmd, <<>>)
             here == [cmd EXCEPT !.commands[i] = e.cmd, !.finished[i] = f.value]
         IN  IF p.panic
             THEN [cmd |-> [cmd EXCEPT !.commands[i] = p.cmd], calls |-> p.calls,
                   panic |-> TRUE]
             ELSE LET rest == PeriodicAll(here, fin, i + 1)
                  IN  [cmd |-> rest.cmd,
                       calls |-> p.calls \o f.calls \o e.calls \o rest.calls,
                       panic |-> rest.panic]

\* periodic; indexing commands[current] past the end panics
c_periodic(cmd, fin) ==
    CASE cmd.kind = "leaf" -> Done(cmd, <<<<cmd.name, "periodic">>>>)
      [] cmd.kind = "seq" ->
            IF cmd.commands = <<>> THEN Done(cmd, <<>>)
            ELSE IF cmd.current \notin DOMAIN cmd.commands
            THEN [cmd |-> cmd, calls |-> <<>>, panic |-> TRUE]
            ELSE LET p == c_periodic(cmd.commands[cmd.current], fin)
                     f == c_is_finished(p.cmd, fin)
                     e == c_end(p.cmd, FALSE)
                     next == cmd.current + 1
                     n == c_init(cmd.commands[next])
                 IN  IF p.panic \/ ~f.value
                     THEN [cmd |-> [cmd EXCEPT !.commands[cmd.current] = p.cmd],
                           calls |-> p.calls \o (IF p.panic THEN <<>> ELSE f.calls),
                           panic |-> p.panic]
                     ELSE IF next \in DOMAIN cmd.commands
                     THEN Done([cmd EXCEPT !.commands[cmd.current] = e.cmd,
                                           !.commands[next] = n.cmd,
                                           !.current = next],
                               p.calls \o f.calls \o e.calls \o n.calls)
                     ELSE Done([cmd EXCEPT !.commands[cmd.current] = e.cmd,
                                           !.current = next],
                               p.calls \o f.calls \o e.calls)
      [] cmd.kind = "par" -> PeriodicAll(cmd, fin, 1)
      [] cmd.kind \in {"named", "extra"} ->
            Forward(cmd, c_periodic(cmd.commands[1], fin))

\* one hook call of the scheduler on the composite
Hook(cmd, call, fin) ==
    CASE call = "init" -> c_init(cmd)
      [] call = "periodic" -> c_periodic(cmd, fin)
      [] call \in {"is_finished_true", "is_finished_false"} ->
            Done(cmd, c_is_finished(cmd, fin).calls)
      [] call = "end_true" -> c_end(cmd, TRUE)
      [] call = "end_false" -> c_end(cmd, FALSE)

\* the hook calls of one visit, in order, until one panics
RECURSIVE Drive(_, _, _, _)
Drive(cmd, calls, fin, i) ==
    IF i > Len(calls) THEN Done(cmd, <<>>)
    ELSE LET r == Hook(cmd, calls[i], fin)
         IN  IF r.panic THEN r
             ELSE LET rest == Drive(r.cmd, calls, fin, i + 1)
                  IN  [cmd |-> rest.cmd, calls |-> r.calls \o rest.calls,
                       panic |-> rest.panic]

\* what is_finished of the composite answers in a visit that is not interrupted
FinishedInVisit(cmd, initialized, fin) ==
    LET i == IF initialized THEN Done(cmd, <<>>) ELSE c_init(cmd)
        p == c_periodic(i.cmd, fin)
    IN  ~p.panic /\ c_is_finished(p.cmd, fin).value

\* the leaves as they see their hook calls
RECURSIVE ReplayLeaves(_, _, _)
ReplayLeaves(st, events, i) ==
    IF i > Len(events) THEN st
    ELSE LET l == events[i][1]
             call == events[i][2]
         IN  ReplayLeaves([life |-> [st.life EXCEPT ![l] = LifeAfter(@, call)],
                           viol |-> [st.viol EXCEPT
                                        ![l] = @ \cup ViolationOf(st.life[l], call)]],
                          events, i + 1)

\* the composites the clients build
CompositeKinds ==
    {"sequential", "before", "before_two_subsystems", "race_with", "along_with",
     "along_with_two_subsystems", "race", "timeout", "with_name",
     "with_extra_requirements"}

Build(kind) ==
    CASE kind = "sequential" -> Sequential(<<Leaf("a"), Leaf("b"), Leaf("c")>>)
      [] kind = "before" ->
            Sequential(<<Sequential(<<Leaf("a"), Leaf("b")>>), Leaf("c")>>)
      [] kind = "before_two_subsystems" -> Sequential(<<Leaf("s1"), Leaf("s2")>>)
      [] kind = "race_with" -> Parallel(<<Leaf("long"), Leaf("wait")>>, TRUE)
      [] kind = "along_with" -> Parallel(<<Leaf("a"), Leaf("b")>>, FALSE)
      [] kind = "along_with_two_subsystems" ->
            Parallel(<<Leaf("s1"), Leaf("s2")>>, FALSE)
      [] kind = "race" -> Parallel(<<Leaf("a"), Leaf("b"), Leaf("c")>>, TRUE)
      [] kind = "timeout" -> Parallel(<<Leaf("a"), Leaf("wait")>>, TRUE)
      [] kind = "with_name" -> Named(Sequential(<<Leaf("s1"), Leaf("s2")>>), "n")
      [] kind = "with_extra_requirements" ->
            ExtraRequirements(Leaf("s1"), <<1, 2>>)
      [] kind = "before_on_one_subsystem" -> Sequential(<<Leaf("s1"), Leaf("a")>>)
      [] kind = "along_with_on_one_subsystem" ->
            Parallel(<<Leaf("s1"), Leaf("a")>>, FALSE)
      [] kind = "race_with_on_one_subsystem" ->
            Parallel(<<Leaf("s1"), Leaf("a")>>, TRUE)

\* the leaves of a command, in list order
RECURSIVE LeavesOf(_)
RECURSIVE LeavesFrom(_, _)
LeavesFrom(cs, i) ==
    IF i > Len(cs) THEN <<>> ELSE LeavesOf(cs[i]) \o LeavesFrom(cs, i + 1)
LeavesOf(cmd) ==
    IF cmd.kind = "leaf" THEN <<cmd.name>> ELSE LeavesFrom(cmd.commands, 1)

\* run_commands visits an index once for every subsystem it owns, an orphaned
\* index once
VisitsPerTick(cmd) ==
    IF c_requirements(cmd) = <<>> THEN 1
    ELSE Cardinality(SeqToSet(c_requirements(cmd)))

\* the durations wait_for is built with; only a composite with a wait child has one
Durations(kind) == IF kind \in {"race_with", "timeout"} THEN 0..MaxDuration ELSE {0}

\* what the monotonic clock may advance by between two ticks; only a wait child
\* reads the clock
Elapses(kind) == IF kind \in {"race_with", "timeout"} THEN 0..MaxDt ELSE {0}

\* the composite has been scheduled and admitted as the owner of its subsystems
Scheduled(kind, duration) ==
    [kind |-> kind, cmd |-> Build(kind), initialized |-> FALSE,
     now |-> 0, start_instant |-> <<>>, duration |-> duration,
     interrupt |-> FALSE, pushed |-> FALSE, panicked |-> FALSE,
     visits_left |-> 0, ticks |-> 0, log |-> <<>>,
     life |-> [l \in Leaves |-> "Queued"], viol |-> [l \in Leaves |-> {}],
     at_cursor |-> None, episode |-> 1, ran |-> {}]

InitComposite ==
    /\ InitManager
    /\ plan = [ticks |-> 0, submits |-> 0, objects |-> {}]
    /\ ctx = OneManager
    /\ evaluation = NoCondition
    /\ comp \in {Scheduled(kind, d) : kind \in CompositeKinds, d \in 0..MaxDuration}
    /\ comp.duration \in Durations(comp.kind)

OnlyComposite ==
    UNCHANGED <<cmd_queue, cond_queue, periodic_callbacks, Manager,
                subsystem_to_default, cond_schedulers, pc, cmds, to_remove,
                to_schedule, given, tick, log, life, viol, failure, slot_of,
                marked, last_admit, refused, edge_admitted, plan, ctx,
                   periodic_calls, evaluation, drained>>

\* the composite is in the active set between two ticks
Waiting ==
    /\ comp.kind # "none"
    /\ comp.visits_left = 0 /\ ~comp.pushed /\ ~comp.panicked

\* run: the command phase is going to visit the index of the composite
CompositeTick ==
    /\ Waiting
    /\ comp.ticks < CompositeTicks
    /\ \E dt \in Elapses(comp.kind) :
          comp' = [comp EXCEPT !.ticks = @ + 1, !.log = <<>>, !.now = @ + dt,
                               !.visits_left = VisitsPerTick(comp.cmd)]
    /\ OnlyComposite

\* inner_schedule of another command flags the composite; at_cursor remembers
\* the leaf that is between its init and its end, the first leaf before any init
CompositeInterrupt ==
    /\ Waiting
    /\ ~comp.interrupt
    /\ comp' = [comp EXCEPT
                   !.interrupt = TRUE,
                   !.at_cursor =
                       IF \E l \in Leaves : comp.life[l] = "Running"
                       THEN CHOOSE l \in Leaves : comp.life[l] = "Running"
                       ELSE IF \A l \in Leaves : comp.life[l] = "Queued"
                       THEN LeavesOf(comp.cmd)[1]
                       ELSE None]
    /\ OnlyComposite

\* run_commands, the body of the for loop on the index of the composite
CompositeVisit ==
    /\ comp.kind # "none"
    /\ comp.visits_left > 0 /\ ~comp.panicked
    /\ \E fin \in Oracles :
          /\ fin["wait"] = WaitFinished(comp.now,
                                       IF comp.initialized THEN comp.start_instant
                                       ELSE <<comp.now>>,
                                       comp.duration)
          /\ LET finished == ~comp.interrupt
                                 /\ FinishedInVisit(comp.cmd, comp.initialized, fin)
                 r == Drive(comp.cmd,
                            VisitCalls(comp.interrupt, comp.initialized, finished),
                            fin, 1)
                 st == ReplayLeaves([life |-> comp.life, viol |-> comp.viol], r.calls, 1)
             IN  comp' = [comp EXCEPT
                             !.cmd = r.cmd,
                             !.initialized = @ \/ ~comp.interrupt,
                             !.pushed = @ \/ (~r.panic /\
                                                 VisitRemoves(comp.interrupt, finished)),
                             !.panicked = r.panic,
                             !.visits_left = @ - 1,
                             !.log = @ \o r.calls,
                             !.start_instant =
                                 IF <<"wait", "init">> \in SeqToSet(r.calls)
                                 THEN <<comp.now>> ELSE @,
                             !.life = st.life,
                             !.viol = st.viol,
                             !.ran = @ \cup {l \in Leaves :
                                                <<l, "periodic">> \in SeqToSet(r.calls)}]
    /\ OnlyComposite

NextComposite ==
    \/ CompositeTick
    \/ CompositeInterrupt
    \/ CompositeVisit

SpecComposite == InitComposite /\ [][NextComposite]_vars

(***************************************************************************)
(* A composite held by a conditional scheduler: the command object stays   *)
(* in its preserved slot when it is reaped, and a later edge of the        *)
(* condition admits the same object again.  episode counts the admissions; *)
(* life, viol and ran of the leaves are kept per episode.                  *)
(***************************************************************************)
MaxEpisodes == 2

\* composites that own one subsystem, so that run_commands visits them once
ReadmitKinds ==
    {"before_on_one_subsystem", "along_with_on_one_subsystem",
     "race_with_on_one_subsystem"}

InitReadmit ==
    /\ InitManager
    /\ plan = [ticks |-> 0, submits |-> 0, objects |-> {}]
    /\ ctx = OneManager
    /\ evaluation = NoCondition
    /\ comp \in {Scheduled(kind, 0) : kind \in ReadmitKinds}

\* the tick after the composite was reaped (remove_command: no longer
\* initialized, the slot kept), run_cond_schedulers sees the edge again and
\* inner_schedule makes the index the owner of its subsystems with
\* interrupt_state false; the command object is the one the last episode left
CompositeReadmit ==
    /\ comp.kind # "none"
    /\ comp.pushed /\ comp.visits_left = 0 /\ ~comp.panicked
    /\ comp.episode < MaxEpisodes
    /\ c_requirements(comp.cmd) # <<>>
    /\ comp' = [comp EXCEPT
                   !.pushed = FALSE, !.initialized = FALSE, !.interrupt = FALSE,
                   !.episode = @ + 1, !.ran = {}, !.at_cursor = None,
                   !.life = [l \in Leaves |-> "Queued"],
                   !.viol = [l \in Leaves |-> {}]]
    /\ OnlyComposite

NextReadmit ==
    \/ CompositeTick
    \/ CompositeInterrupt
    \/ CompositeVisit
    \/ CompositeReadmit

SpecReadmit == InitReadmit /\ [][NextReadmit]_vars

(***************************************************************************)
(* The execution context: the thread-local MANAGER_QUEUE cell, the         *)
(* CommandManager values created and dropped on the thread, and the free   *)
(* functions that push to the cell.  drained lists what each manager took  *)
(* out of the queue in its update, as <<manager, command>>.                *)
(***************************************************************************)
MaxCalls == 3
ManagerIds == {1, 2}
ContextObjects == {"X", "P"}

InitContext ==
    /\ InitManager
    /\ plan = [ticks |-> 0, submits |-> 0, objects |-> {}]
    /\ comp = NoComposite
    /\ evaluation = NoCondition
    /\ ctx = [queue |-> FALSE, managers |-> {}, result |-> "none", calls |-> 0,
              drained |-> <<>>]

OnlyContext ==
    UNCHANGED <<periodic_callbacks, Manager, subsystem_to_default, cond_schedulers,
                pc, cmds, to_remove, to_schedule, given, tick, log, life, viol,
                failure, slot_of, marked, last_admit, refused, edge_admitted,
                plan, comp, periodic_calls, evaluation, drained>>

\* CommandManager::new: the cell gets a fresh pair of queues
ContextNew(m) ==
    /\ m \notin ctx.managers
    /\ ctx' = [ctx EXCEPT !.queue = TRUE, !.managers = @ \cup {m}, !.result = "none"]
    /\ cmd_queue' = <<>>
    /\ cond_queue' = <<>>
    /\ OnlyContext

\* Drop for CommandManager: the cell is set to None
ContextDrop(m) ==
    /\ m \in ctx.managers
    /\ ctx' = [ctx EXCEPT !.queue = FALSE, !.managers = @ \ {m}, !.result = "none"]
    /\ cmd_queue' = <<>>
    /\ cond_queue' = <<>>
    /\ OnlyContext

\* manager::schedule, whose result Command::try_schedule returns
ContextSchedule(c) ==
    /\ ctx.calls < MaxCalls
    /\ c \in ContextObjects \cap ScheduledCommands
    /\ IF ctx.queue
       THEN /\ cmd_queue' = Append(cmd_queue, c)
            /\ ctx' = [ctx EXCEPT !.result = "Ok", !.calls = @ + 1]
       ELSE /\ cmd_queue' = cmd_queue
            /\ ctx' = [ctx EXCEPT !.result = "WrongThreadError", !.calls = @ + 1]
    /\ cond_queue' = cond_queue
    /\ OnlyContext

\* manager::add_cond_scheduler, called by Condition::on_true / on_false
ContextOnEdge(c) ==
    /\ ctx.calls < MaxCalls
    /\ c \in ContextObjects \cap ConditionCommands
    /\ IF ctx.queue
       THEN /\ cond_queue' = Append(cond_queue,
                                [edge |-> EdgeOf(c), last_poll |-> FALSE,
                                 command_slot |-> c, idx_slot |-> None,
                                 made_with |-> c])
            /\ ctx' = [ctx EXCEPT !.result = "Ok", !.calls = @ + 1]
       ELSE /\ cond_queue' = cond_queue
            /\ ctx' = [ctx EXCEPT !.result = "WrongThreadError", !.calls = @ + 1]
    /\ cmd_queue' = cmd_queue
    /\ OnlyContext

\* CommandManager::update of manager m: it drains whatever the cell holds
ContextUpdate(m) ==
    /\ m \in ctx.managers
    /\ ctx.queue /\ (cmd_queue # <<>> \/ cond_queue # <<>>)
    /\ ctx' = [ctx EXCEPT
                  !.result = "none",
                  !.drained = @ \o [i \in DOMAIN cmd_queue |-> <<m, cmd_queue[i]>>]
                                \o [i \in DOMAIN cond_queue |->
                                       <<m, cond_queue[i].command_slot>>]]
    /\ cmd_queue' = <<>>
    /\ cond_queue' = <<>>
    /\ OnlyContext

NextContext ==
    \/ \E m \in ManagerIds : ContextNew(m) \/ ContextDrop(m) \/ ContextUpdate(m)
    \/ \E c \in ContextObjects : ContextSchedule(c) \/ ContextOnEdge(c)

SpecContext == InitContext /\ [][NextContext]_vars

(***************************************************************************)
(* Condition combinators (conditions.rs).  A Condition is Condition::new   *)
(* of predicate 0 followed by a chain of combinators; the k-th combinator  *)
(* is and(f), or(f) with the closure f being predicate k, or negate().     *)
(***************************************************************************)
MaxChain == 3

Combinators == {"and", "or", "negate"}

RECURSIVE get_as_boolean(_, _, _)
\* the closure of the condition made by the first n combinators of the chain,
\* called with the predicates answering val: its value and the predicates it
\* called, in call order
get_as_boolean(chain, n, val) ==
    IF n = 0 THEN [value |-> val[0], calls |-> <<0>>]
    ELSE LET slf_cond == get_as_boolean(chain, n - 1, val)
         IN  CASE chain[n] = "and" ->
                    IF slf_cond.value
                    THEN [value |-> val[n], calls |-> Append(slf_cond.calls, n)]
                    ELSE [value |-> FALSE, calls |-> slf_cond.calls]
               [] chain[n] = "or" ->
                    [value |-> slf_cond.value \/ val[n],
                     calls |-> Append(slf_cond.calls, n)]
               [] chain[n] = "negate" ->
                    [value |-> ~slf_cond.value, calls |-> slf_cond.calls]

InitCondition ==
    /\ InitManager
    /\ plan = [ticks |-> 0, submits |-> 0, objects |-> {}]
    /\ comp = NoComposite
    /\ ctx = OneManager
    /\ evaluation = [kind |-> "condition", chain |-> <<>>, polled |-> FALSE,
                     val |-> [k \in 0..MaxChain |-> FALSE], value |-> FALSE,
                     calls |-> <<>>]

OnlyCondition ==
    UNCHANGED <<cmd_queue, cond_queue, periodic_callbacks, Manager,
                subsystem_to_default, cond_schedulers, pc, cmds, to_remove,
                to_schedule, given, tick, log, life, viol, failure, slot_of,
                marked, last_admit, refused, edge_admitted, plan, comp, ctx,
                periodic_calls, drained>>

\* Condition::and, Condition::or, Condition::negate: a new Condition over the
\* old one
Combine(op) ==
    /\ evaluation.kind = "condition"
    /\ Len(evaluation.chain) < MaxChain
    /\ evaluation' = [evaluation EXCEPT
                         !.chain = Append(@, op), !.polled = FALSE,
                         !.val = [k \in 0..MaxChain |-> FALSE],
                         !.value = FALSE, !.calls = <<>>]
    /\ OnlyCondition

\* BooleanSupplier::get_as_boolean of the Condition
GetAsBoolean(val) ==
    /\ evaluation.kind = "condition"
    /\ LET r == get_as_boolean(evaluation.chain, Len(evaluation.chain), val)
       IN  evaluation' = [evaluation EXCEPT !.polled = TRUE, !.val = val,
                                            !.value = r.value, !.calls = r.calls]
    /\ OnlyCondition

NextCondition ==
    \/ \E op \in Combinators : Combine(op)
    \/ \E val \in [0..MaxChain -> BOOLEAN] : GetAsBoolean(val)

SpecCondition == InitCondition /\ [][NextCondition]_vars





(***************************************************************************)
(* The properties.                                                         *)
(***************************************************************************)
\* C1: in every tick no two distinct commands whose requirement sets share a
\* SUID both have periodic invoked, and the default command of a subsystem has
\* no periodic in a tick in which a scheduled command requiring that subsystem
\* has periodic invoked.
C1_MutualExclusion ==
    /\ \A c1, c2 \in Objects :
          (c1 # c2 /\ Requires(c1) \cap Requires(c2) # {}) => ~(Ran(c1) /\ Ran(c2))
    /\ \A s \in DOMAIN subsystem_to_default :
          \A c \in Objects \ DefaultCommands :
              (s \in Requires(c) /\ Ran(c) /\ DefaultFor(s) # None) => ~Ran(DefaultFor(s))


\* C2: whenever an admission marks an incumbent scheduled command as
\* interrupted, the command phase of the same tick calls end(true) on that
\* incumbent and pushes it for reaping, also when the new command's
\* requirements cover every SUID the incumbent owned.
C2_Cancellation ==
    CommandPhaseDone =>
        \A c \in marked \cap ScheduledCommands :
            "end_true" \in Calls(c) /\ Pushed(slot_of[c])

\* C3: end is invoked exactly once per scheduling episode: never twice, and
\* never zero times once an initialised command has left the active set.
C3_EndExactlyOnce ==
    \A c \in Objects :
        /\ "end_twice" \notin viol[c]
        /\ (pc = "idle" /\ life[c] = "Running" /\ c \notin DefaultCommands)
              => (get_command(Self, slot_of[c]) = c /\ Active(slot_of[c]))

\* C4: the scheduler invokes a command's periodic at most once per tick, also
\* for a command that owns two or more subsystems.
C4_PeriodicOncePerTick == \A c \in Objects : Count(c, "periodic") <= 1

\* C5: within an episode no periodic or is_finished call precedes init and
\* none follows end; the calls are init, (periodic, is_finished)*, end.
C5_LifecycleOrder == \A c \in Objects : viol[c] \subseteq {"init_after_end"}

\* C6: every end call carries interrupted = true exactly when an admission
\* cancelled the command, and interrupted = false exactly when the command's
\* own is_finished returned true in that tick.
C6_EndArgument ==
    \A c \in Objects : \A i \in DOMAIN log[c] :
        /\ log[c][i] = "end_true" => c \in marked
        /\ log[c][i] = "end_false" =>
              (c \notin marked /\ i > 1 /\ log[c][i - 1] = "is_finished_true")
        /\ log[c][i] = "is_finished_true" =>
              (i < Len(log[c]) /\ log[c][i + 1] = "end_false")

C6_Witness ==
    \E c1, c2 \in Objects : "end_true" \in Calls(c1) /\ "end_false" \in Calls(c2)

\* the command is terminated: absent from initialized, interrupt_state and
\* orphaned, owner of nothing, its Command slot vacant, its default or
\* preserved slot still holding it
IsTerminated(c) ==
    LET index == slot_of[c]
    IN  /\ index \notin initialized_commands
        /\ index \notin DOMAIN interrupt_state
        /\ index \notin orphaned_commands
        /\ index \notin Range(requirements)
        /\ get_command(Self, index) = IF index[1] = "Command" THEN None ELSE c

\* C7: when a command's is_finished returns true in a tick, end(false) is
\* called in that tick and when the tick ends the command is terminated.
C7_FinishedIsReaped ==
    [][(pc = "commands" /\ pc' = "idle") =>
          \A c \in Objects :
              "is_finished_true" \in Calls(c) =>
                  ("end_false" \in Calls(c) /\ IsTerminated(c)')]_vars

\* C8 as claimed: every admitted scheduled command has init called exactly
\* once, in the command phase of the first tick after its admission and
\* before its first periodic.
C8_InitOnAdmission ==
    CommandPhaseDone =>
        \A c \in ScheduledCommands :
            slot_of[c] # None =>
                /\ Inited(c)
                /\ viol[c] \cap {"init_twice", "init_after_end", "run_before_init"} = {}
                /\ "init" \in Calls(c) => (log[c][1] = "init" /\ Count(c, "init") = 1)

\* C8 amended: init is called at most once on a scheduled command, as the
\* first call of a visit and before its first periodic; a command that is in
\* the active set and not flagged interrupted in a command phase has been
\* initialised when that phase has made its visits (so in the first command
\* phase after its admission).
C8_InitOnFirstVisit ==
    CommandPhaseDone =>
        \A c \in ScheduledCommands :
            slot_of[c] # None =>
                /\ (Active(slot_of[c]) /\ get_command(Self, slot_of[c]) = c
                    /\ ~interrupt_state[slot_of[c]]) => Inited(c)
                /\ viol[c] \cap {"init_twice", "init_after_end", "run_before_init"} = {}
                /\ "init" \in Calls(c) => (log[c][1] = "init" /\ Count(c, "init") = 1)

C8_Witness ==
    /\ CommandPhaseDone
    /\ tick = 2
    /\ \E c \in ScheduledCommands : Ran(c) /\ "init" \notin Calls(c) /\ Inited(c)

\* C9: after a successful admission of a command with non-empty requirements
\* R, requirements[s] is the new index for every s in R, the new index is not
\* flagged, and every other scheduled command that owned some s in R is flagged.
C9_AdmissionTakesOwnership ==
    [][(last_admit'.n \notin {0, last_admit.n} /\ last_admit'.accepted
        /\ Requires(last_admit'.command) # {}) =>
          /\ \A s \in Requires(last_admit'.command) :
                s \in DOMAIN requirements' /\ requirements'[s] = last_admit'.index
          /\ interrupt_state'[last_admit'.index] = FALSE
          /\ \A o \in last_admit'.owners :
                (o # last_admit'.index /\ o[1] # "DefaultCommand") =>
                    interrupt_state'[o] = TRUE]_vars

C9_Witness ==
    /\ last_admit.n # 0
    /\ last_admit.accepted
    /\ \E o \in last_admit.owners : o[1] = "Command" /\ o # last_admit.index
    /\ \A s \in Requires(last_admit.command) : requirements[s] = last_admit.index

\* C10: if the cancel_incoming of any conflicting owner returns true, the
\* admission changes no requirements entry and sets no interrupt flag on an
\* incumbent.
C10_AllOrNothing ==
    [][(last_admit'.n \notin {0, last_admit.n} /\ last_admit'.refusers # {}) =>
          /\ requirements' = requirements
          /\ \A o \in DOMAIN interrupt_state :
                o \in DOMAIN interrupt_state' /\ interrupt_state'[o] = interrupt_state[o]]_vars

\* C11: when the admission of a command B meets an owner A whose own
\* cancel_incoming returns true, then in the command phase of that tick A still
\* owns the contested subsystems and runs, is not ended as interrupted, and B
\* is not initialised, has end(true) called once and is pushed for reaping.
C11_RefusalKeepsOwner ==
    CommandPhaseDone =>
        \A r \in refused :
            /\ \A s \in Requires(r[1]) \cap Requires(r[2]) :
                  s \in DOMAIN requirements /\ requirements[s] = slot_of[r[2]]
            /\ Ran(r[2]) /\ "end_true" \notin Calls(r[2])
            /\ ~Inited(r[1])
            /\ Count(r[1], "end_true") = 1 /\ Pushed(slot_of[r[1]])

\* C12: an admission that takes a subsystem from its default command does not
\* set the default command's interrupt flag, and end(true) is never called on
\* a default command.
C12_DefaultNotFlagged ==
    [][/\ last_admit'.n \notin {0, last_admit.n} =>
            \A o \in last_admit'.owners :
                o[1] = "DefaultCommand" => interrupt_state'[o] = FALSE
       /\ \A d \in DefaultCommands : "end_true" \notin SeqToSet(log'[d])]_vars

\* a scheduled (arena) command is the owner of subsystem s
ScheduledOwner(s) == s \in DOMAIN requirements /\ requirements[s][1] # "DefaultCommand"

\* C13: in a tick in which a scheduled command owns subsystem s the default
\* command of s has no periodic, and in a tick in which no scheduled command
\* owns s the default command of s has periodic called exactly once.
C13_DisplacementAndResume ==
    CommandPhaseDone =>
        \A s \in DOMAIN subsystem_to_default :
            DefaultFor(s) # None =>
                IF ScheduledOwner(s) THEN ~Ran(DefaultFor(s))
                ELSE Count(DefaultFor(s), "periodic") = 1

\* C14: while nothing is scheduled, a default command that does not report
\* finished has periodic called exactly once in every tick, init called once,
\* in the first tick and before the first periodic, and no end.
C14_DefaultFallback ==
    (CommandPhaseDone /\ given = {}) =>
        \A s \in DOMAIN subsystem_to_default :
            (DefaultFor(s) # None /\ "is_finished_true" \notin Calls(DefaultFor(s))) =>
                /\ log[DefaultFor(s)] =
                      (IF tick = 1 THEN <<"init">> ELSE <<>>)
                          \o <<"periodic", "is_finished_false">>
                /\ life[DefaultFor(s)] = "Running"
                /\ viol[DefaultFor(s)] = {}

C14_Witness ==
    /\ CommandPhaseDone /\ given = {} /\ tick = LongTicks
    /\ log["D1"] = <<"periodic", "is_finished_false">>

\* the schedulers whose edge the samples of this poll show: previous sample
\* false and this one true for on_true, previous true and this one false for
\* on_false
EdgeSeen ==
    {i \in DOMAIN cond_schedulers :
        IF cond_schedulers[i].edge = "on_true"
        THEN ~cond_schedulers[i].last_poll /\ cond_schedulers'[i].last_poll
        ELSE cond_schedulers[i].last_poll /\ ~cond_schedulers'[i].last_poll}

\* C15: the poll of a tick submits for admission one index for every
\* conditional scheduler whose edge the samples show and none for the others,
\* and the index submitted for a scheduler holds the command the scheduler was
\* made with.
C15_EdgeTriggering ==
    [][(pc = "conditions" /\ pc' = "admit") =>
          /\ Len(to_schedule') = Cardinality(EdgeSeen)
          /\ \A i \in EdgeSeen :
                /\ \E k \in DOMAIN to_schedule' :
                      to_schedule'[k] = cond_schedulers[i].idx_slot
                /\ get_command(Self, cond_schedulers[i].idx_slot)
                      = cond_schedulers[i].made_with]_vars

\* C16: a command that run_cond_schedulers admitted in a tick has init called
\* in that tick, once and before any other call, and the visit of the command
\* does not fail.
C16_InitOnEveryEdge ==
    \A c \in edge_admitted :
        /\ slot_of[c] \in DOMAIN interrupt_state
        /\ CommandPhaseDone => (Count(c, "init") = 1 /\ log[c][1] = "init")

\* C17: init is never called on a preserved command that is running, and a
\* preserved command admitted again in a tick is not ended as interrupted in
\* that tick unless the admission of another command flagged it.
C17_IdempotentAdmission ==
    \A c \in ConditionCommands :
        /\ "init_twice" \notin viol[c]
        /\ (c \in edge_admitted \ marked) => "end_true" \notin Calls(c)

C17_Witness ==
    /\ CommandPhaseDone
    /\ \E c \in edge_admitted :
          /\ log[c] = <<"periodic", "is_finished_false">>
          /\ life[c] = "Running" /\ viol[c] = {}
          /\ slot_of[c] \in Range(requirements)


\* the composite under test is built of sequential commands only
IsSequential == comp.kind \in {"sequential", "before", "before_two_subsystems"}

\* position of a leaf in the list order of the composite
PositionOf(l) == CHOOSE i \in DOMAIN LeavesOf(comp.cmd) : LeavesOf(comp.cmd)[i] = l

\* C18: in a sequential composite the children run strictly in list order with
\* at most one child between its init and its end; a child that reports finished
\* gets end(false) and the next child gets init in the same tick, and that next
\* child gets its first periodic on a later tick; the composite is observed
\* finished exactly when every child has ended, so a composite of n children is
\* not reaped before tick n.
C18_SequentialOrdering ==
    (IsSequential /\ ~comp.interrupt) =>
        LET ls == LeavesOf(comp.cmd)
        IN  /\ Cardinality({l \in SeqToSet(ls) : comp.life[l] = "Running"}) <= 1
            /\ \A i, j \in DOMAIN ls :
                  (i < j /\ comp.life[ls[j]] # "Queued") => comp.life[ls[i]] = "Terminated"
            /\ \A l \in SeqToSet(ls) : comp.viol[l] = {}
            /\ \A k \in DOMAIN comp.log :
                  /\ (comp.log[k][2] = "end_false" /\ PositionOf(comp.log[k][1]) < Len(ls)) =>
                        /\ k < Len(comp.log)
                        /\ comp.log[k + 1] = <<ls[PositionOf(comp.log[k][1]) + 1], "init">>
                  /\ (comp.log[k][2] = "init" /\ comp.log[k][1] # ls[1]) =>
                        \A m \in DOMAIN comp.log :
                            m > k => comp.log[m] # <<comp.log[k][1], "periodic">>
            /\ (comp.visits_left = 0 /\ ~comp.panicked) =>
                  (comp.pushed <=> \A l \in SeqToSet(ls) : comp.life[l] = "Terminated")
            /\ comp.pushed => comp.ticks >= Len(ls)
            /\ ~comp.panicked

\* C19: when an interrupted sequential composite is ended by the scheduler, every
\* hook call made on a child is end(true) on the child at the cursor; the
\* children before the cursor stay terminated without a second end and the
\* children after the cursor stay untouched (never initialised, never ended).
C19_InterruptOnlyCurrent ==
    (IsSequential /\ comp.interrupt /\ comp.pushed) =>
        LET ls == LeavesOf(comp.cmd)
        IN  /\ comp.at_cursor \in SeqToSet(ls)
            /\ comp.log # <<>>
            /\ \A k \in DOMAIN comp.log : comp.log[k] = <<comp.at_cursor, "end_true">>
            /\ \A l \in SeqToSet(ls) :
                  /\ PositionOf(l) < PositionOf(comp.at_cursor) =>
                        (comp.life[l] = "Terminated" /\ comp.viol[l] = {})
                  /\ PositionOf(l) > PositionOf(comp.at_cursor) =>
                        (comp.life[l] = "Queued" /\ comp.viol[l] = {})

\* sequential([a, b, c]) was interrupted while b was running
C19_Witness ==
    /\ comp.kind = "sequential" /\ comp.interrupt /\ comp.pushed
    /\ comp.at_cursor = "b"
    /\ comp.log = <<<<"b", "end_true">>>>
    /\ comp.life = [l \in Leaves |-> CASE l = "a" -> "Terminated"
                                      [] l = "b" -> "Terminated"
                                      [] OTHER -> "Queued"]

\* number of times a hook was called on a leaf of the composite in this tick
LeafCount(l, call) ==
    Cardinality({k \in DOMAIN comp.log : comp.log[k] = <<l, call>>})

\* C20: when the scheduler has observed a race composite finished and ended it,
\* no child is left between its init and its end, and every child that had not
\* itself finished has received end(true) exactly once in that tick; for
\* long.race_with(wait_for(d)) that child is long.
C20_RaceLosersEnded ==
    (comp.kind = "race_with" /\ comp.pushed /\ ~comp.interrupt) =>
        \A l \in SeqToSet(LeavesOf(comp.cmd)) :
            /\ comp.life[l] = "Terminated"
            /\ LeafCount(l, "end_false") = 0 => LeafCount(l, "end_true") = 1

\* the composite under test is a parallel command over leaves
IsParallel ==
    comp.kind \in {"race_with", "along_with", "along_with_two_subsystems", "race",
                   "timeout"}

\* a step is one visit of run_commands on the composite
IsVisit == comp'.visits_left < comp.visits_left

\* the hook calls the children received in the visit
VisitEvents == SubSeq(comp'.log, Len(comp.log) + 1, Len(comp'.log))

\* C21: in a visit of a parallel composite that is not interrupted, the first
\* visit starts with init on every child in list order; then, in list order,
\* every child that has not ended gets periodic followed by is_finished,
\* followed at once by end(false) if it reported finished, and a child that has
\* ended gets no call; the composite is observed finished in that visit iff some
\* child (race) or every child (otherwise) has ended.
C21_ParallelStepping ==
    [][(IsParallel /\ IsVisit /\ ~comp.interrupt) =>
          LET ls == LeavesOf(comp.cmd)
              n == IF comp.initialized THEN 0 ELSE Len(ls)
              rest == SubSeq(VisitEvents, n + 1, Len(VisitEvents))
          IN  /\ Len(VisitEvents) >= n
              /\ \A i \in 1..n : VisitEvents[i] = <<ls[i], "init">>
              /\ \A k, m \in DOMAIN rest :
                    k < m => PositionOf(rest[k][1]) <= PositionOf(rest[m][1])
              /\ \A l \in SeqToSet(ls) :
                    LET mine == SelectSeq(rest, LAMBDA e : e[1] = l)
                    IN  IF comp.life[l] = "Terminated"
                        THEN mine = <<>> /\ comp'.life[l] = "Terminated"
                        ELSE \/ /\ mine = <<<<l, "periodic">>, <<l, "is_finished_false">>>>
                                /\ comp'.life[l] = "Running"
                             \/ /\ mine = <<<<l, "periodic">>, <<l, "is_finished_true">>,
                                            <<l, "end_false">>>>
                                /\ comp'.life[l] = "Terminated"
              /\ \A l \in SeqToSet(ls) : comp'.viol[l] = {}
              /\ comp'.pushed <=>
                    IF comp.cmd.race
                    THEN \E l \in SeqToSet(ls) : comp'.life[l] = "Terminated"
                    ELSE \A l \in SeqToSet(ls) : comp'.life[l] = "Terminated"]_vars

\* a.along_with(b): a ended in an earlier tick and only b was run in this one
C21_Witness ==
    /\ comp.kind = "along_with" /\ ~comp.interrupt /\ ~comp.pushed
    /\ comp.ticks >= 2 /\ comp.visits_left = 0
    /\ comp.life["a"] = "Terminated"
    /\ comp.log = <<<<"b", "periodic">>, <<"b", "is_finished_false">>>>

\* C22: in a visit that ends an interrupted parallel composite, every child that
\* has not ended gets exactly end(true) and a child that has ended gets no
\* call, so that afterwards every child has received exactly one end.
C22_InterruptEndsUnfinished ==
    [][(IsParallel /\ IsVisit /\ comp.interrupt) =>
          /\ comp'.pushed
          /\ \A l \in SeqToSet(LeavesOf(comp.cmd)) :
                /\ SelectSeq(VisitEvents, LAMBDA e : e[1] = l) =
                      (IF comp.life[l] = "Terminated" THEN <<>>
                       ELSE <<<<l, "end_true">>>>)
                /\ comp'.life[l] = "Terminated"
                /\ "end_twice" \notin comp'.viol[l]]_vars

\* a.along_with(b) was interrupted after a had finished and while b was running
C22_Witness ==
    /\ comp.kind = "along_with" /\ comp.interrupt /\ comp.pushed
    /\ comp.log = <<<<"b", "end_true">>>>
    /\ comp.life["a"] = "Terminated" /\ comp.life["b"] = "Terminated"
    /\ comp.viol["a"] = {} /\ comp.viol["b"] = {}

\* C23: c.race_with(wait_for(d)) that has been initialised and is not
\* interrupted has been reaped by the end of the first tick at which the time
\* elapsed since its init is at least d, whether c finishes or not; with a c that
\* never finishes it is not reaped before that tick.
C23_RaceLaw ==
    (/\ comp.kind \in {"race_with", "timeout"} /\ ~comp.interrupt
     /\ comp.initialized /\ comp.visits_left = 0) =>
        /\ ~comp.panicked
        /\ comp.start_instant # <<>>
        /\ comp.now - comp.start_instant[1] >= comp.duration => comp.pushed
        /\ (comp.kind = "race_with" /\ comp.pushed) =>
              comp.now - comp.start_instant[1] >= comp.duration

\* wait_for(2) won in a tick later than the tick of its init
C23_Witness ==
    /\ comp.kind = "race_with" /\ ~comp.interrupt /\ comp.pushed
    /\ comp.duration = MaxDuration /\ comp.ticks >= 3
    /\ comp.now - comp.start_instant[1] >= comp.duration
    /\ <<"wait", "is_finished_true">> \in SeqToSet(comp.log)

RECURSIVE RequirementsAreUnion(_)
\* at a command and at every command below it, the requirement set is the union
\* of the requirement sets of its children (with the extra set for
\* ExtraRequirements)
RequirementsAreUnion(cmd) ==
    \/ cmd.kind = "leaf"
    \/ /\ SeqToSet(c_requirements(cmd)) =
             UNION {SeqToSet(c_requirements(cmd.commands[i])) : i \in DOMAIN cmd.commands}
                \cup SeqToSet(cmd.extra)
       /\ \A i \in DOMAIN cmd.commands : RequirementsAreUnion(cmd.commands[i])

\* C24: whatever the cursor and the finished flags, the requirement set of a
\* composite is the union of the requirement sets of its children; Named has
\* the set of its child and ExtraRequirements the set of its child united with
\* the extra set; the set never changes while the composite runs.
C24_RequirementsUnion ==
    /\ comp.kind # "none" =>
          /\ RequirementsAreUnion(comp.cmd)
          /\ c_requirements(comp.cmd) = c_requirements(Build(comp.kind))
    /\ comp.kind = "with_name" => SeqToSet(c_requirements(comp.cmd)) = {1, 2}
    /\ comp.kind = "with_extra_requirements" =>
          SeqToSet(c_requirements(comp.cmd)) = {1, 2}

\* s1.before(s2) still requires both subsystems when s1 has ended and the
\* cursor is on s2
C24_Witness ==
    /\ comp.kind = "before_two_subsystems"
    /\ comp.cmd.current = 2 /\ comp.life["s1"] = "Terminated"
    /\ SeqToSet(c_requirements(comp.cmd)) = {1, 2}

\* a step is one call of manager::schedule or manager::add_cond_scheduler
IsSubmission == ctx'.calls = ctx.calls + 1

\* C25: a submission returns Ok iff a scheduler exists on the context (created
\* and not yet dropped); with Ok the item is appended to its queue, otherwise
\* the result is the wrong-context error and nothing is queued.
C25_SubmitIffSchedulerExists ==
    [][IsSubmission =>
          /\ ctx'.result = "Ok" <=> ctx.managers # {}
          /\ ctx'.result = "Ok" =>
                \/ /\ \E c \in ScheduledCommands : cmd_queue' = Append(cmd_queue, c)
                   /\ cond_queue' = cond_queue
                \/ /\ Len(cond_queue') = Len(cond_queue) + 1
                   /\ SubSeq(cond_queue', 1, Len(cond_queue)) = cond_queue
                   /\ cmd_queue' = cmd_queue
          /\ ctx'.result # "Ok" =>
                /\ ctx'.result = "WrongThreadError"
                /\ cmd_queue' = <<>> /\ cond_queue' = <<>>]_vars

\* the command objects waiting in the context-local queues
Queued == SeqToSet(cmd_queue) \cup {cond_queue[i].command_slot : i \in DOMAIN cond_queue}

\* C26: a submission through the free functions, between two ticks or from
\* inside a hook during a tick, appends one item to its queue and changes
\* nothing else of the scheduler; a queued command is in no arena and has had no
\* hook called until update drains it; when update is over every submitted
\* command has been stored and both queues are empty.
C26_DeferredSubmission ==
    [][/\ (given' # given /\ (InHook \/ Queued' # Queued)) =>
             /\ \E c \in given' \ given : Queued' = Queued \cup {c}
             /\ Len(cmd_queue') + Len(cond_queue') = Len(cmd_queue) + Len(cond_queue) + 1
             /\ UNCHANGED <<Manager, periodic_callbacks, subsystem_to_default,
                            cond_schedulers, slot_of, log, pc>>
       /\ \A c \in Queued' : slot_of'[c] = None /\ life'[c] = "Queued"
       /\ (pc = "update" /\ pc' = "conditions") =>
             /\ cmd_queue' = <<>> /\ cond_queue' = <<>>
             /\ \A c \in given' : slot_of'[c] # None]_vars

\* a command hook of tick 1 has submitted a command and a condition; both wait
\* in the queues while the command phase goes on
C26_Witness ==
    /\ pc = "commands" /\ tick = 1
    /\ cmd_queue # <<>> /\ cond_queue # <<>>
    /\ \E c \in Objects : Ran(c)

\* C27: a registration with a SUID that is already registered gives the
\* subsystem-already-registered error and changes nothing of the scheduler; a
\* successful one appends one callback and one default slot and maps the SUID to
\* the new DefaultCommand index, with interrupt_state false; no step ever
\* changes or removes an entry of subsystem_to_default.
C27_RegistrationOnce ==
    [][/\ (failure = "none" /\ failure' = "SubsystemAlreadyRegistered") =>
             UNCHANGED <<periodic_callbacks, Manager, subsystem_to_default,
                         cond_schedulers, cmd_queue, cond_queue>>
       /\ \A s \in DOMAIN subsystem_to_default :
             /\ s \in DOMAIN subsystem_to_default'
             /\ subsystem_to_default'[s] = subsystem_to_default[s]
       /\ \A s \in DOMAIN subsystem_to_default' \ DOMAIN subsystem_to_default :
             /\ subsystem_to_default'[s] = <<"DefaultCommand", Len(default_commands')>>
             /\ subsystem_to_default'[s] \notin Range(subsystem_to_default)
             /\ Len(default_commands') = Len(default_commands) + 1
             /\ periodic_callbacks' = Append(periodic_callbacks, s)
             /\ interrupt_state'[subsystem_to_default'[s]] = FALSE
       /\ periodic_callbacks' # periodic_callbacks =>
             DOMAIN subsystem_to_default' # DOMAIN subsystem_to_default]_vars

\* subsystem 3 was registered, a tick ran, and a second registration of a
\* registered SUID was refused
C27_Witness ==
    /\ failure = "SubsystemAlreadyRegistered"
    /\ tick >= 1
    /\ 3 \in DOMAIN subsystem_to_default
    /\ subsystem_to_default[3] = <<"DefaultCommand", 3>>
    /\ Len(periodic_callbacks) = 3 /\ Len(default_commands) = 3

\* no command hook has been called in this tick
NoHookYet == \A c \in Objects : log[c] = <<>>

\* the steps from one phase of run to the next
PhaseSteps ==
    {<<"idle", "update">>, <<"update", "conditions">>, <<"conditions", "admit">>,
     <<"admit", "commands">>, <<"commands", "idle">>}

\* C28: within a tick the queues are drained (and the drained commands
\* admitted) before any subsystem periodic; every registered subsystem gets its
\* periodic once, in registration order, before any condition is polled; the
\* polls and the admissions they cause come before any command hook; reaping
\* comes after every command hook of the tick.
C28_PhaseOrder ==
    [][/\ pc' # pc => (<<pc, pc'>> \in PhaseSteps \/ pc' = "panicked")
       /\ (Len(cmd_queue') < Len(cmd_queue) \/ Len(cond_queue') < Len(cond_queue)) =>
             (pc = "update" /\ periodic_calls = <<>> /\ NoHookYet)
       /\ (periodic_calls' # periodic_calls /\ periodic_calls' # <<>>) =>
             /\ pc = "update" /\ cmd_queue = <<>> /\ cond_queue = <<>>
             /\ periodic_calls = <<>> /\ periodic_calls' = periodic_callbacks
             /\ \A i, j \in DOMAIN periodic_calls' :
                   periodic_calls'[i] = periodic_calls'[j] => i = j
             /\ to_schedule = <<>> /\ NoHookYet
       /\ (\E i \in DOMAIN cond_schedulers \cap DOMAIN cond_schedulers' :
               cond_schedulers'[i].last_poll # cond_schedulers[i].last_poll) =>
             /\ pc = "conditions" /\ periodic_calls = periodic_callbacks
             /\ cmd_queue = <<>> /\ cond_queue = <<>> /\ NoHookYet
       /\ to_schedule' # to_schedule =>
             /\ pc \in {"conditions", "admit"}
             /\ periodic_calls = periodic_callbacks /\ NoHookYet
       /\ (\E c \in Objects : log'[c] # log[c] /\ log'[c] # <<>>) =>
             /\ pc = "commands" /\ to_schedule = <<>>
             /\ periodic_calls = periodic_callbacks
             /\ cmd_queue = <<>> /\ cond_queue = <<>>
       /\ (\/ \E i \in DOMAIN commands : commands[i] # None /\ commands'[i] = None
           \/ orphaned_commands' # orphaned_commands /\
                 orphaned_commands' \subseteq orphaned_commands) =>
             (pc = "commands" /\ cmds = EmptyMap /\ pc' = "idle")]_vars

\* a tick in which a queued command was drained, the three subsystems got their
\* periodic, a condition edge admitted its command and both commands were run
C28_Witness ==
    /\ CommandPhaseDone
    /\ periodic_calls = <<1, 2, 3>>
    /\ \E c \in edge_admitted : Ran(c)
    /\ \E c \in ScheduledCommands : Ran(c) /\ Inited(c)
    /\ to_remove # <<>>

\* C29: a Condition built with and(f), or(f) and negate() evaluates to self AND
\* f, self OR f and NOT self, and evaluates f only when self alone does not
\* decide the result (ShortCircuit gives that value and the predicates
\* evaluated, in order).
C29_Combinators ==
    LET RECURSIVE ShortCircuit(_, _, _)
        ShortCircuit(chain, n, val) ==
            IF n = 0 THEN [value |-> val[0], calls |-> <<0>>]
            ELSE LET self == ShortCircuit(chain, n - 1, val)
                 IN  CASE chain[n] = "and" ->
                            [value |-> self.value /\ val[n],
                             calls |-> IF self.value THEN Append(self.calls, n)
                                       ELSE self.calls]
                       [] chain[n] = "or" ->
                            [value |-> self.value \/ val[n],
                             calls |-> IF self.value THEN self.calls
                                       ELSE Append(self.calls, n)]
                       [] chain[n] = "negate" ->
                            [value |-> ~self.value, calls |-> self.calls]
    IN  (evaluation.kind = "condition" /\ evaluation.polled) =>
            LET expected == ShortCircuit(evaluation.chain, Len(evaluation.chain),
                                         evaluation.val)
            IN  /\ evaluation.value = expected.value
                /\ evaluation.calls = expected.calls

\* C30: at every tick boundary every command present in the scheduled, default
\* or preserved arena has an interrupt_state entry, and every initialized index
\* has one; a default or preserved command keeps its entry after being reaped.
C30_InterruptStateDefined ==
    pc = "idle" =>
        /\ \A i \in DOMAIN commands :
              commands[i] # None => <<"Command", i>> \in DOMAIN interrupt_state
        /\ \A i \in DOMAIN default_commands :
              default_commands[i] # None =>
                  <<"DefaultCommand", i>> \in DOMAIN interrupt_state
        /\ \A i \in DOMAIN preserved_commands :
              preserved_commands[i] # None =>
                  <<"PreservedCommand", i>> \in DOMAIN interrupt_state
        /\ initialized_commands \subseteq DOMAIN interrupt_state

\* C31: at every tick boundary every entry s -> c of requirements points to a
\* scheduled or preserved command present in its arena with s among its
\* requirements, or to the default slot registered for subsystem s.
C31_OwnersPresent ==
    pc = "idle" =>
        \A s \in DOMAIN requirements :
            LET index == requirements[s]
                cmd == get_command(Self, index)
            IN  \/ /\ index[1] \in {"Command", "PreservedCommand"}
                   /\ cmd # None
                   /\ s \in SeqToSet(get_requirements(cmd))
                \/ /\ s \in DOMAIN subsystem_to_default
                   /\ index = subsystem_to_default[s]

\* C32: the reaping at the end of a tick removes from requirements exactly the
\* entries whose owner is a reaped index; every entry owned by another
\* command is left as it was.
C32_ReapRemovesOwnEntries ==
    [][(pc = "commands" /\ pc' = "idle") =>
          \A s \in DOMAIN requirements :
              IF Pushed(requirements[s])
              THEN s \notin DOMAIN requirements'
              ELSE s \in DOMAIN requirements' /\ requirements'[s] = requirements[s]]_vars

\* C33: an admission of a command without requirements puts its index into
\* orphaned_commands and leaves interrupt_state[index] defined and false, for a
\* new command and for a preserved command admitted again; when the visits of
\* a tick are made every orphaned command has received periodic exactly once.
C33_OrphanAdmission ==
    [][/\ (last_admit' # last_admit /\ last_admit'.n # 0
           /\ get_requirements(last_admit'.command) = <<>>) =>
              /\ last_admit'.index \in orphaned_commands'
              /\ last_admit'.index \in DOMAIN interrupt_state'
              /\ interrupt_state'[last_admit'.index] = FALSE
       /\ (pc' = "commands" /\ cmds' = EmptyMap) =>
              \A index \in orphaned_commands' :
                  LET c == get_command(Self, index)
                  IN  c # None => Cardinality({i \in DOMAIN log'[c] :
                                                 log'[c][i] = "periodic"}) = 1]_vars

\* C34: no tick stops with a hard failure: no lookup of a missing
\* interrupt_state key and no arena index out of range, whatever registrations,
\* submissions and ticks came before.
C34_NoHardFailure ==
    failure \notin {"interrupt_state_key", "index_out_of_range"}

\* C35: when the visits of a tick are made, every command that has been
\* initialised, has not been ended and whose interrupt flag is not set has
\* received periodic in this tick; the reaping of another command does not
\* drop it from the commands the scheduler runs.
C35_InitialisedKeepsRunning ==
    CommandPhaseDone =>
        \A c \in Objects :
            (/\ life[c] = "Running"
             /\ slot_of[c] # None
             /\ get_command(Self, slot_of[c]) = c
             /\ slot_of[c] \in initialized_commands
             /\ slot_of[c] \in DOMAIN interrupt_state
             /\ ~interrupt_state[slot_of[c]]) => Ran(c)

\* C36: the registration of a conditional scheduler does not fail, stores the
\* scheduler's command in a preserved slot that held no command, leaves every
\* other preserved slot as it was and gives the scheduler an index no other
\* registered scheduler has.
C36_FreshPreservedSlot ==
    [][(pc = "update" /\ cmd_queue = <<>> /\ cond_queue # <<>>) =>
          /\ pc' # "panicked"
          /\ Len(cond_schedulers') = Len(cond_schedulers) + 1
          /\ LET index == cond_schedulers'[Len(cond_schedulers')].idx_slot
             IN  /\ index[1] = "PreservedCommand"
                 /\ get_command(Self, index) = None
                 /\ preserved_commands'[index[2]] = Head(cond_queue).command_slot
                 /\ \A i \in DOMAIN preserved_commands :
                       i # index[2] => preserved_commands'[i] = preserved_commands[i]
                 /\ \A i \in DOMAIN cond_schedulers :
                       cond_schedulers[i].idx_slot # index]_vars

\* C37: a step that changes the command arena never moves or replaces a live
\* command and never shortens the arena; a command it inserts goes to the
\* lowest vacant slot, or to a new last slot when there is no vacancy, and is
\* known under that index; the default and preserved arenas are unchanged.
C37_VacantSlotOnly ==
    [][commands' # commands =>
          /\ Len(commands') >= Len(commands)
          /\ default_commands' = default_commands
          /\ preserved_commands' = preserved_commands
          /\ \A i \in DOMAIN commands :
                commands[i] # None => commands'[i] \in {commands[i], None}
          /\ \A i \in DOMAIN commands' :
                (commands'[i] # None /\ (i \notin DOMAIN commands \/ commands[i] = None)) =>
                    /\ \A j \in 1..(i - 1) : j \in DOMAIN commands /\ commands[j] # None
                    /\ i \notin DOMAIN commands =>
                          \A j \in DOMAIN commands : commands[j] # None
                    /\ \A k \in DOMAIN commands \ {i} : commands'[k] = commands[k]
                    /\ slot_of'[commands'[i]] = <<"Command", i>>]_vars

\* a command has been stored in the slot an earlier command left vacant, while
\* a later slot was vacant too
C37_Witness ==
    \E c1, c2 \in Objects :
        /\ c1 # c2
        /\ slot_of[c1] # None /\ slot_of[c1] = <<"Command", 1>>
        /\ slot_of[c2] # None /\ slot_of[c2] = <<"Command", 1>>
        /\ commands[1] = c1
        /\ life[c2] = "Terminated"
        /\ Len(commands) >= 2 /\ commands[2] = None

\* two commands of one drain, the first taken before the second, that require
\* a common subsystem, the first not refusing incoming commands
DrainedPairs(d) ==
    {p \in (DOMAIN d) \X (DOMAIN d) :
        /\ p[1] < p[2]
        /\ Requires(d[p[1]]) \cap Requires(d[p[2]]) # {}
        /\ ~cancel_incoming(d[p[1]])}

\* update admits the head of cmd_queue and registers no conditional scheduler
\* while cmd_queue holds a command
DrainInOrder ==
    (pc = "update" /\ cmd_queue # <<>>) =>
        /\ last_admit'.n # 0 /\ last_admit'.command = Head(cmd_queue)
        /\ cmd_queue' = Tail(cmd_queue)
        /\ cond_queue' = cond_queue /\ cond_schedulers' = cond_schedulers

\* C38 (as stated): queued commands are admitted in FIFO order, before any
\* queued conditional scheduler is registered; of two commands of one drain
\* with overlapping requirements the later one owns the common subsystems and
\* is initialised in the tick, and the earlier one is not initialised in it.
C38_LaterSubmissionWins ==
    [][/\ DrainInOrder
       /\ (pc' = "commands" /\ cmds' = EmptyMap) =>
              \A p \in DrainedPairs(drained') :
                  LET c1 == drained'[p[1]]
                      c2 == drained'[p[2]]
                  IN  /\ "init" \notin SeqToSet(log'[c1])
                      /\ "init" \in SeqToSet(log'[c2])
                      /\ \A s \in Requires(c1) \cap Requires(c2) :
                            s \in DOMAIN requirements'
                            /\ requirements'[s] = slot_of'[c2]]_vars

\* C38 (amended): as above, but the later command owns its subsystems and is
\* initialised only if no later admission of the tick has flagged it; a later
\* command that was flagged is not initialised either.
C38_LastSubmissionWins ==
    [][/\ DrainInOrder
       /\ (pc' = "commands" /\ cmds' = EmptyMap) =>
              \A p \in DrainedPairs(drained') :
                  LET c1 == drained'[p[1]]
                      c2 == drained'[p[2]]
                  IN  /\ "init" \notin SeqToSet(log'[c1])
                      /\ IF interrupt_state'[slot_of'[c2]]
                         THEN "init" \notin SeqToSet(log'[c2])
                         ELSE /\ "init" \in SeqToSet(log'[c2])
                              /\ \A s \in Requires(c2) :
                                    s \in DOMAIN requirements'
                                    /\ requirements'[s] = slot_of'[c2]]_vars

\* the visits of a tick are made in which three commands with a common
\* subsystem were drained: the last was initialised, the first two were ended
\* as interrupted
C38_Witness ==
    /\ CommandPhaseDone
    /\ Len(drained) = 3
    /\ \A i \in 1..2 : <<i, 3>> \in DrainedPairs(drained)
    /\ "init" \in Calls(drained[3])
    /\ \A i \in 1..2 : "end_true" \in Calls(drained[i])

\* C39: in an episode after the first, an initialised sequential composite has
\* run its first child and an initialised parallel composite has run every
\* child; when the episode is over every child that received init in it has
\* been ended exactly once, in the order init, periodic, end, and has
\* received periodic unless the episode was interrupted.
C39_FreshEpisode ==
    (comp.kind # "none" /\ comp.episode >= 2 /\ ~comp.panicked) =>
        /\ (comp.initialized /\ comp.visits_left = 0) =>
              \A i \in DOMAIN LeavesOf(comp.cmd) :
                  (i = 1 \/ comp.cmd.kind = "par") => LeavesOf(comp.cmd)[i] \in comp.ran
        /\ (comp.pushed /\ comp.visits_left = 0) =>
              \A l \in Leaves :
                  (comp.life[l] # "Queued" /\ "end_before_init" \notin comp.viol[l]) =>
                      /\ comp.life[l] = "Terminated"
                      /\ comp.viol[l] = {}
                      /\ ~comp.interrupt => l \in comp.ran

====
